---- MODULE Spec2Model ----
(***************************************************************************)
(* Jibot 3: the people-fact store, the forget/learn/recall commands, the   *)
(* per-workspace fact store, the identity (owner/admin/guest) store and    *)
(* the /jibot slash command.                                               *)
(*                                                                         *)
(* Strings are sequences of atoms.  An atom is one character (" ", "2",    *)
(* "n", ".") or a run of characters no pattern looks into ("jibot",        *)
(* "forget", "<@U1>"), so trim, toLowerCase, parseInt, the regular         *)
(* expressions and string concatenation are modelled on the text itself.   *)
(***************************************************************************)
EXTENDS Integers, Sequences, FiniteSets, Bags, TLC

VARIABLES
  people,     \* people.json: userId -> PersonRecord (absent = no record)
  pending,    \* bag of handlers suspended at `await client.users.info(...)`
  reply,      \* the text passed to say()/respond() by the last step
  wsPeople,   \* people-<team>.json: teamId -> (userId -> PersonRecord)
  wsLinks,    \* people-links.json: the list of link groups
  now,        \* the clock new Date() reads, in milliseconds
  authJson,   \* auth.json: owner, owner's linked ids, admins or users
  inbox,      \* titles of the open reminders of the "Jibot" list
  slashPending,  \* bag of /jibot handlers suspended at `await client.users.info`
  conversationHistory,  \* the Map of llm-parse.ts: userId -> messages
  llm,        \* the call of processWithLLM under way, or the last one
  turn,       \* calls of processWithLLM so far
  parseText,  \* the text parseCommand was last called with
  parseResult, \* and the ParseResult it returned
  mudMessage, \* the message of the speech event handleSpeech last took
  mudResponse, \* and the MudResponse it returned
  ioResult    \* the last operation on a file, what the file system did, how it ended

msgVars == <<people, pending>>
wsVars == <<wsPeople, wsLinks, now>>
idVars == <<authJson, inbox, slashPending>>
llmVars == <<conversationHistory, llm, turn>>
parseVars == <<parseText, parseResult>>
mudVars == <<mudMessage, mudResponse>>
ioVars == <<ioResult>>
vars == <<msgVars, reply, wsVars, idVars, llmVars, parseVars, mudVars, ioVars>>

----------------------------------------------------------------------------
(* Bounds of the model *)

MaxFacts == 3      \* facts stored over all subjects
MaxPending == 1    \* handlers suspended at an external call at one time
MaxWsFacts == 2    \* facts stored over all the per-workspace files
MaxClock == 2      \* milliseconds the clock advances
MaxReminders == 2  \* open reminders, those about to be added included
MaxTurns == 6      \* calls of processWithLLM
MaxSkills == 2     \* skills listed in one answer of the model
MaxPhrases == 3    \* phrases in one text given to parseCommand
MaxMudWords == 4   \* words of one speech event

----------------------------------------------------------------------------
(* Text *)

SP == " "

UserIds == {"U1", "U2"}

\* "<@U1>" as it appears in Slack message text, and the id the pattern
\* <@([A-Z0-9]+)> captures from it
MentionId == [m \in {"<@U1>", "<@U2>"} |-> IF m = "<@U1>" THEN "U1" ELSE "U2"]

MentionOf(u) == CHOOSE m \in DOMAIN MentionId : MentionId[m] = u

IsMention(a) == a \in DOMAIN MentionId

\* String.prototype.toLowerCase, atom by atom
LowerAtom(a) ==
  CASE a = "ALL" -> "all"
    [] a = "JIBOT" -> "jibot"
    [] a = "X" -> "x"
    [] OTHER -> a

toLowerCase(s) == [i \in 1..Len(s) |-> LowerAtom(s[i])]

RECURSIVE SkipSp(_, _)
\* index of the first atom at or after i that is not white space (\s*)
SkipSp(s, i) == IF i <= Len(s) /\ s[i] = SP THEN SkipSp(s, i + 1) ELSE i

RECURSIVE SkipSpBack(_, _)
SkipSpBack(s, i) == IF i >= 1 /\ s[i] = SP THEN SkipSpBack(s, i - 1) ELSE i

\* String.prototype.trim
trim(s) == SubSeq(s, SkipSp(s, 1), SkipSpBack(s, Len(s)))

\* digit values, for parseInt (radix 10, or 16 after a 0x prefix)
DigitVal ==
  [c \in {"0", "1", "2", "3", "4", "5", "6", "7", "8", "9", "a", "b", "c", "d", "e", "f"} |->
     CASE c = "0" -> 0 [] c = "1" -> 1 [] c = "2" -> 2 [] c = "3" -> 3
       [] c = "4" -> 4 [] c = "5" -> 5 [] c = "6" -> 6 [] c = "7" -> 7
       [] c = "8" -> 8 [] c = "9" -> 9 [] c = "a" -> 10 [] c = "b" -> 11
       [] c = "c" -> 12 [] c = "d" -> 13 [] c = "e" -> 14 [] c = "f" -> 15]

IsDigit(c, radix) == c \in DOMAIN DigitVal /\ DigitVal[c] < radix

RECURSIVE DigitRun(_, _, _)
\* length of the longest prefix of s from i made of digits of the radix
DigitRun(s, i, radix) ==
  IF i <= Len(s) /\ IsDigit(s[i], radix) THEN 1 + DigitRun(s, i + 1, radix) ELSE 0

RECURSIVE DigitsValue(_, _)
DigitsValue(ds, radix) ==
  IF ds = <<>> THEN 0
  ELSE DigitsValue(SubSeq(ds, 1, Len(ds) - 1), radix) * radix + DigitVal[ds[Len(ds)]]

NaN == [nan |-> TRUE, val |-> 0]

\* parseInt(string) with no radix argument: leading white space skipped, an
\* optional sign, an optional 0x prefix, then the longest run of digits;
\* whatever follows the run is ignored; NaN when the run is empty
parseInt(s) ==
  LET i    == SkipSp(s, 1)
      sign == i <= Len(s) /\ s[i] \in {"-", "+"}
      neg  == i <= Len(s) /\ s[i] = "-"
      j    == IF sign THEN i + 1 ELSE i
      hex  == j + 1 <= Len(s) /\ s[j] = "0" /\ s[j + 1] \in {"x", "X"}
      k    == IF hex THEN j + 2 ELSE j
      rdx  == IF hex THEN 16 ELSE 10
      n    == DigitRun(s, k, rdx)
      v    == DigitsValue(toLowerCase(SubSeq(s, k, k + n - 1)), rdx)
  IN IF n = 0 THEN NaN ELSE [nan |-> FALSE, val |-> IF neg THEN 0 - v ELSE v]

isNaN(r) == r.nan

----------------------------------------------------------------------------
(* Command parsers *)

NoMatch == [matched |-> FALSE, userId |-> "", fact |-> <<>>, index |-> 0]

NullIndex == 0 - 2   \* `index: null` (list mode); -1 is "forget all"

AtomIs(s, i, w) == i <= Len(s) /\ LowerAtom(s[i]) = w

\* a slip for parseLearnCommand: /^jibot\s+(?:\w+\s+)?<@...>\s+is\s+(.+)$/i,
\* which lets one word stand between "jibot" and the mention
parseLearnCommandAnyVerb(text) ==
  LET a0 == SkipSp(text, 2)
      a == IF a0 <= Len(text) /\ ~IsMention(text[a0]) /\ text[a0] # SP
           THEN SkipSp(text, a0 + 1) ELSE a0
      b == SkipSp(text, a + 1)
      c == SkipSp(text, b + 1)
      ok == /\ AtomIs(text, 1, "jibot") /\ a0 > 2
            /\ a <= Len(text) /\ IsMention(text[a]) /\ b > a + 1
            /\ AtomIs(text, b, "is") /\ c > b + 1
            /\ (c <= Len(text) \/ c > b + 2)
  IN IF ok
     THEN [matched |-> TRUE, userId |-> MentionId[text[a]],
           fact |-> trim(SubSeq(text, c, Len(text))), index |-> 0]
     ELSE NoMatch

\* /^jibot\s+<@([A-Z0-9]+)>\s+is\s+(.+)$/i ; fact: match[2].trim()
parseLearnCommand(text) ==
  LET a == SkipSp(text, 2)       \* after "jibot" and \s+
      b == SkipSp(text, a + 1)   \* after the mention and \s+
      c == SkipSp(text, b + 1)   \* after "is" and \s+
      ok == /\ AtomIs(text, 1, "jibot") /\ a > 2
            /\ a <= Len(text) /\ IsMention(text[a]) /\ b > a + 1
            /\ AtomIs(text, b, "is") /\ c > b + 1
            \* (.+)$ needs one character: what is left after \s+, or (by
            \* backtracking) the last white space when there are two or more
            /\ (c <= Len(text) \/ c > b + 2)
  IN IF ok
     THEN [matched |-> TRUE, userId |-> MentionId[text[a]],
           fact |-> trim(SubSeq(text, c, Len(text))), index |-> 0]
     ELSE NoMatch

\* whether /who\s+is\s+<@([A-Z0-9]+)>/i matches at atom i
WhoIsAt(text, i) ==
  LET a == SkipSp(text, i + 1)
      b == SkipSp(text, a + 1)
  IN /\ AtomIs(text, i, "who") /\ a > i + 1
     /\ AtomIs(text, a, "is") /\ b > a + 1
     /\ b <= Len(text) /\ IsMention(text[b])

\* /(?:jibot\s+)?who\s+is\s+<@([A-Z0-9]+)>\??/i : not anchored, so the
\* leftmost occurrence anywhere in the text matches
parseWhoIsCommand(text) ==
  LET hits == {i \in 1..Len(text) : WhoIsAt(text, i)}
      i == CHOOSE h \in hits : \A g \in hits : h <= g
  IN IF hits = {} THEN NoMatch
     ELSE [matched |-> TRUE,
           userId |-> MentionId[text[SkipSp(text, SkipSp(text, i + 1) + 1)]],
           fact |-> <<>>, index |-> 0]

\* the selector of a forget command: match[2]?.trim().toLowerCase(), then
\* all/everything, then parseInt
ForgetIndex(rawArg) ==
  LET arg == toLowerCase(trim(rawArg))
      num == parseInt(arg)
  IN IF arg = <<>> THEN NullIndex
     ELSE IF arg = <<"all">> \/ arg = <<"everything">> THEN 0 - 1
     ELSE IF ~isNaN(num) /\ num.val >= 1 THEN num.val - 1
     ELSE NullIndex

\* /^jibot\s+forget\s+<@([A-Z0-9]+)>(?:\s+(.+))?$/i
parseForgetCommand(text) ==
  LET a == SkipSp(text, 2)       \* after "jibot" and \s+
      b == SkipSp(text, a + 1)   \* after "forget" and \s+
      m == b + 1                 \* after the mention
      e == SkipSp(text, m)       \* after the optional \s+
      head == /\ AtomIs(text, 1, "jibot") /\ a > 2
              /\ AtomIs(text, a, "forget") /\ b > a + 1
              /\ b <= Len(text) /\ IsMention(text[b])
      rawArg == IF m > Len(text) THEN <<>>
                ELSE IF e <= Len(text) THEN SubSeq(text, e, Len(text))
                ELSE <<SP>>
      \* the group is optional, but $ must follow: the mention ends the text,
      \* or \s+(.+) consumes all the rest (two characters at least)
      tailOk == \/ m > Len(text)
                \/ (e > m /\ (e <= Len(text) \/ e > m + 1))
  IN IF head /\ tailOk
     THEN [matched |-> TRUE, userId |-> MentionId[text[b]], fact |-> <<>>,
           index |-> ForgetIndex(rawArg)]
     ELSE NoMatch

\* lower === "jibot" || lower === "jibot help" || lower === "jibot?"
isHelpCommand(text) ==
  toLowerCase(trim(text)) \in {<<"jibot">>, <<"jibot", SP, "help">>, <<"jibot", "?">>}

----------------------------------------------------------------------------
(* people.json *)

NoRecord == [displayName |-> "", slackName |-> "", facts |-> <<>>]

Known(store, userId) == userId \in DOMAIN store

\* store[userId] = value, creating the key when it is new
Put(store, userId, value) ==
  [u \in DOMAIN store \cup {userId} |-> IF u = userId THEN value ELSE store[u]]

\* delete store[userId]
Delete(store, userId) == [u \in DOMAIN store \ {userId} |-> store[u]]

\* a slip for SpliceOut: pop() instead of splice(index, 1)
SpliceOutPop(facts, index) == SubSeq(facts, 1, Len(facts) - 1)

\* Array.prototype.splice(index, 1) on a 0-based index
SpliceOut(facts, index) ==
  SubSeq(facts, 1, index) \o SubSeq(facts, index + 2, Len(facts))

addFact(store, userId, fact, addedBy, displayName, slackName) ==
  LET old == IF Known(store, userId) THEN store[userId] ELSE NoRecord
  IN Put(store, userId,
         [displayName |-> IF displayName # "" THEN displayName ELSE old.displayName,
          slackName |-> IF slackName # "" THEN slackName ELSE old.slackName,
          facts |-> Append(old.facts, [fact |-> fact, addedBy |-> addedBy])])

\* store[userId]?.facts || []
getFacts(store, userId) == IF Known(store, userId) THEN store[userId].facts ELSE <<>>

\* store[userId]?.displayName || store[userId]?.slackName
getDisplayName(store, userId) ==
  IF ~Known(store, userId) THEN ""
  ELSE IF store[userId].displayName # "" THEN store[userId].displayName
  ELSE store[userId].slackName

\* a slip for removeFact: the record is kept when its last fact goes
removeFactKeepRecord(store, userId, index) ==
  IF ~Known(store, userId) \/ index < 0 \/ index >= Len(store[userId].facts)
  THEN [store |-> store, ok |-> FALSE]
  ELSE [store |-> Put(store, userId,
                      [store[userId] EXCEPT !.facts = SpliceOut(store[userId].facts, index)]),
        ok |-> TRUE]

\* removeFact(userId, index): the store it saves and the boolean it returns
removeFact(store, userId, index) ==
  IF ~Known(store, userId) \/ index < 0 \/ index >= Len(store[userId].facts)
  THEN [store |-> store, ok |-> FALSE]
  ELSE LET rest == SpliceOut(store[userId].facts, index)
       IN [store |-> IF Len(rest) = 0 THEN Delete(store, userId)
                     ELSE Put(store, userId, [store[userId] EXCEPT !.facts = rest]),
           ok |-> TRUE]

\* a slip for removeAllFacts: the count is returned but nothing is saved
removeAllFactsNoSave(store, userId) ==
  IF ~Known(store, userId) THEN [store |-> store, count |-> 0]
  ELSE [store |-> store, count |-> Len(store[userId].facts)]

\* removeAllFacts(userId): the store it saves and the count it returns
removeAllFacts(store, userId) ==
  IF ~Known(store, userId) THEN [store |-> store, count |-> 0]
  ELSE [store |-> Delete(store, userId), count |-> Len(store[userId].facts)]

RECURSIVE JoinFacts(_, _)
\* factTexts.join(sep)
JoinFacts(texts, sep) ==
  IF Len(texts) = 0 THEN <<>>
  ELSE IF Len(texts) = 1 THEN texts[1]
  ELSE texts[1] \o sep \o JoinFacts(Tail(texts), sep)

formatFactsSentence(facts) ==
  LET factTexts == [i \in 1..Len(facts) |-> facts[i].fact]
      n == Len(factTexts)
  IN IF n = 0 THEN <<>>
     ELSE IF n = 1 THEN factTexts[1]
     ELSE IF n = 2 THEN factTexts[1] \o <<SP, "and", SP>> \o factTexts[2]
     ELSE JoinFacts(SubSeq(factTexts, 1, n - 1), <<",", SP>>)
            \o <<",", SP, "and", SP>> \o factTexts[n]

----------------------------------------------------------------------------
(* Message handlers *)

Reply(kind, userId, text, num, count, list) ==
  [kind |-> kind, userId |-> userId, text |-> text, num |-> num,
   count |-> count, list |-> list]

NoReply == Reply("none", "", <<>>, 0, 0, <<>>)

\* "I don't know anything about <@userId> to forget."
NothingToForget(userId) == Reply("nothing_to_forget", userId, <<>>, 0, 0, <<>>)

\* handleWhoIs: the reply text is kept whole, `... is ${factsSentence}.`
handleWhoIs(store, userId) ==
  LET facts == getFacts(store, userId)
      name == getDisplayName(store, userId)
      who == IF name # "" THEN <<name, SP, "(", MentionOf(userId), ")">>
             ELSE <<MentionOf(userId)>>
  IN IF Len(facts) = 0 THEN Reply("unknown_person", userId, <<>>, 0, 0, <<>>)
     ELSE Reply("who_is", userId,
                <<"[bot]", SP>> \o who \o <<SP, "is", SP>>
                  \o formatFactsSentence(facts) \o <<".">>,
                0, 0, <<>>)

\* a slip for handleForget: list mode without the check for no facts
handleForgetNoEmptyCheck(store, userId, index) ==
  LET facts == getFacts(store, userId)
  IN IF index = NullIndex
     THEN [store |-> store,
           reply |-> Reply("fact_list", userId, <<>>, 0, 0,
                           [i \in 1..Len(facts) |-> facts[i].fact])]
     ELSE IF index = 0 - 1
     THEN LET r == removeAllFacts(store, userId)
          IN [store |-> r.store,
              reply |-> IF r.count = 0 THEN NothingToForget(userId)
                        ELSE Reply("forgot_all", userId, <<>>, 0, r.count, <<>>)]
     ELSE IF index < 0 \/ index >= Len(facts)
     THEN [store |-> store,
           reply |-> Reply("no_such_fact", userId, <<>>, index + 1, Len(facts), <<>>)]
     ELSE [store |-> removeFact(store, userId, index).store,
           reply |-> Reply("forgot", userId, facts[index + 1].fact, 0, 0, <<>>)]

\* handleForget: the store it leaves and the reply it returns
handleForget(store, userId, index) ==
  LET facts == getFacts(store, userId)
  IN IF index = NullIndex
     THEN [store |-> store,
           reply |-> IF Len(facts) = 0 THEN NothingToForget(userId)
                     ELSE Reply("fact_list", userId, <<>>, 0, 0,
                                [i \in 1..Len(facts) |-> facts[i].fact])]
     ELSE IF index = 0 - 1
     THEN LET r == removeAllFacts(store, userId)
          IN [store |-> r.store,
              reply |-> IF r.count = 0 THEN NothingToForget(userId)
                        ELSE Reply("forgot_all", userId, <<>>, 0, r.count, <<>>)]
     ELSE IF index < 0 \/ index >= Len(facts)
     THEN [store |-> store,
           reply |-> Reply("no_such_fact", userId, <<>>, index + 1, Len(facts), <<>>)]
     ELSE [store |-> removeFact(store, userId, index).store,
           reply |-> Reply("forgot", userId, facts[index + 1].fact, 0, 0, <<>>)]

\* handleLearn after `await client.users.info`: addFact, then the reply
handleLearn(store, userId, fact, addedBy, info) ==
  [store |-> addFact(store, userId, fact, addedBy, info.displayName, info.slackName),
   reply |-> Reply("learned", userId, fact, 0, 0, <<>>)]

----------------------------------------------------------------------------
(* Inputs *)

\* words joined by single spaces
Words(ws) == JoinFacts(ws, <<SP>>)

FactTexts == {<<"a">>, <<"b", ".">>}

\* the decimal digit of n, 0 <= n <= 9
DigitAtom(n) == CHOOSE c \in DOMAIN DigitVal : DigitVal[c] = n

\* the selectors tried after `jibot forget <@user>`: every position that
\* can hold a fact and the one after, and tokens that are no position
ForgetArgs ==
  { <<"all">>, <<"ALL">>, <<"everything">>, <<"-", "1">>,
    <<"2", "n", "d">>, <<"1", ".", "5">>, <<"0", "x", "2">>,
    <<"is", SP, "broken">>, <<"who", SP, "is", SP, MentionOf("U2")>> }
  \cup {<<DigitAtom(n)>> : n \in 0..(MaxFacts + 1)}

ForgetText(u, arg) ==
  IF arg = <<>> THEN Words(<<(<<"jibot">>), (<<"forget">>), (<<MentionOf(u)>>)>>)
  ELSE Words(<<(<<"jibot">>), (<<"forget">>), (<<MentionOf(u)>>), arg>>)

LearnText(u, t) == Words(<<(<<"jibot">>), (<<MentionOf(u)>>), (<<"is">>), t>>)

WhoIsText(u) == Words(<<(<<"who">>), (<<"is">>), (<<MentionOf(u), "?">>)>>)

LearnMessages == {LearnText(u, t) : u \in UserIds, t \in FactTexts}

WhoIsMessages == {WhoIsText(u) : u \in UserIds}

ForgetMessages == {ForgetText(u, a) : u \in UserIds, a \in ForgetArgs \cup {<<>>}}

HelpMessages == {<<"jibot", SP, "help">>}

Messages == LearnMessages \cup WhoIsMessages \cup ForgetMessages \cup HelpMessages

\* (text, sender) of the inbound messages: facts about U1 are taught by
\* either user, facts about U2 by U1; only the learn handler reads the
\* sender, so the other messages come from one user
Inbound ==
  {m \in LearnMessages \X UserIds : m[2] = "U1" \/ parseLearnCommand(m[1]).userId = "U1"}
    \cup ((Messages \ LearnMessages) \X {"U1"})

\* what client.users.info yields for a user: the profile, or nothing when
\* the call throws
Profile(u) ==
  IF u = "U1" THEN [displayName |-> "Al", slackName |-> "al"]
  ELSE [displayName |-> "Bo", slackName |-> "bo"]

NoProfile == [displayName |-> "", slackName |-> ""]

RECURSIVE SumLen(_, _)
SumLen(store, ids) ==
  IF ids = {} THEN 0
  ELSE LET u == CHOOSE x \in ids : TRUE
       IN Len(store[u].facts) + SumLen(store, ids \ {u})

TotalFacts(store) == SumLen(store, DOMAIN store)

----------------------------------------------------------------------------
(* people-<team>.json and people-links.json: the per-workspace fact store *)

Teams == {"T1", "T2"}

Identity(userId, teamId) == [userId |-> userId, teamId |-> teamId]

\* the (user, workspace) pairs the store is called with
Identities == {Identity("U1", "T1"), Identity("U1", "T2"), Identity("U2", "T2")}

NoIdentity == [found |-> FALSE, canonicalId |-> "", canonicalTeam |-> ""]

\* whether (userId, teamId) is the canonical or a linked identity of link
InLink(link, userId, teamId) ==
  \/ link.canonicalId = userId /\ link.canonicalTeam = teamId
  \/ \E j \in 1..Len(link.linkedIds) :
       link.linkedIds[j].odUserId = userId /\ link.linkedIds[j].teamId = teamId

\* index of the first link group that holds the identity, 0 when none does
FirstLinkOf(links, userId, teamId) ==
  LET hits == {i \in 1..Len(links) : InLink(links[i], userId, teamId)}
  IN IF hits = {} THEN 0 ELSE CHOOSE i \in hits : \A j \in hits : i <= j

findCanonicalIdentity(links, userId, teamId) ==
  LET i == FirstLinkOf(links, userId, teamId)
  IN IF i = 0 THEN NoIdentity
     ELSE [found |-> TRUE, canonicalId |-> links[i].canonicalId,
           canonicalTeam |-> links[i].canonicalTeam]

\* canonical identity first, then the linked ones in the order they were linked
getAllIdentities(links, userId, teamId) ==
  LET i == FirstLinkOf(links, userId, teamId)
  IN IF i = 0 THEN <<Identity(userId, teamId)>>
     ELSE <<Identity(links[i].canonicalId, links[i].canonicalTeam)>>
            \o [j \in 1..Len(links[i].linkedIds) |->
                  Identity(links[i].linkedIds[j].odUserId, links[i].linkedIds[j].teamId)]

\* links.find(l => l.canonicalId === c.canonicalId && l.canonicalTeam === c.canonicalTeam)
FindLink(links, c) ==
  LET hits == {i \in 1..Len(links) : /\ links[i].canonicalId = c.canonicalId
                                     /\ links[i].canonicalTeam = c.canonicalTeam}
  IN IF hits = {} THEN 0 ELSE CHOOSE i \in hits : \A j \in hits : i <= j

\* link.linkedIds.push({odUserId, teamId})
PushLinked(links, i, userId, teamId) ==
  [links EXCEPT ![i].linkedIds = Append(@, [odUserId |-> userId, teamId |-> teamId])]

\* a slip for linkUsers: the second identity joins the group of the first
\* without the check that it is in a group already
linkUsersNoCheck(links, userId1, teamId1, userId2, teamId2) ==
  LET existing1 == findCanonicalIdentity(links, userId1, teamId1)
      existing2 == findCanonicalIdentity(links, userId2, teamId2)
      l1 == FindLink(links, existing1)
      l2 == FindLink(links, existing2)
  IN IF existing1.found /\ l1 # 0
     THEN [links |-> PushLinked(links, l1, userId2, teamId2), success |-> TRUE]
     ELSE IF existing2.found /\ l2 # 0
     THEN [links |-> PushLinked(links, l2, userId1, teamId1), success |-> TRUE]
     ELSE [links |-> Append(links, [canonicalId |-> userId1, canonicalTeam |-> teamId1,
                                    linkedIds |-> <<[odUserId |-> userId2,
                                                     teamId |-> teamId2]>>]),
           success |-> TRUE]

\* linkUsers: the links it saves and the success flag it returns
linkUsers(links, userId1, teamId1, userId2, teamId2) ==
  LET existing1 == findCanonicalIdentity(links, userId1, teamId1)
      existing2 == findCanonicalIdentity(links, userId2, teamId2)
      l1 == FindLink(links, existing1)
      l2 == FindLink(links, existing2)
  IN IF existing1.found /\ existing2.found
     THEN [links |-> links, success |-> FALSE]
     ELSE IF existing1.found /\ l1 # 0
     THEN [links |-> PushLinked(links, l1, userId2, teamId2), success |-> TRUE]
     ELSE IF existing2.found /\ l2 # 0
     THEN [links |-> PushLinked(links, l2, userId1, teamId1), success |-> TRUE]
     ELSE [links |-> Append(links, [canonicalId |-> userId1, canonicalTeam |-> teamId1,
                                    linkedIds |-> <<[odUserId |-> userId2,
                                                     teamId |-> teamId2]>>]),
           success |-> TRUE]

\* addFact(userId, teamId, fact, addedBy) at time addedAt, on the team's file
wsAddFact(stores, userId, teamId, fact, addedBy, addedAt) ==
  LET store == stores[teamId]
      old == IF Known(store, userId) THEN store[userId] ELSE NoRecord
  IN [stores EXCEPT ![teamId] =
        Put(store, userId,
            [old EXCEPT !.facts = Append(@, [fact |-> fact, addedBy |-> addedBy,
                                             addedAt |-> addedAt])])]

RECURSIVE SortNewestFirst(_)
\* allFacts.sort((a, b) => b.addedAt - a.addedAt): newest first, and stable,
\* so facts of the same instant keep the order they were gathered in
SortNewestFirst(facts) ==
  IF Len(facts) <= 1 THEN facts
  ELSE LET front == SortNewestFirst(SubSeq(facts, 1, Len(facts) - 1))
           x == facts[Len(facts)]
           k == Cardinality({i \in 1..Len(front) : front[i].addedAt >= x.addedAt})
       IN SubSeq(front, 1, k) \o <<x>> \o SubSeq(front, k + 1, Len(front))

\* store[userId]?.facts || [] in one team's file
getFactsLocal(stores, userId, teamId) == getFacts(stores[teamId], userId)

RECURSIVE GatherFacts(_, _)
\* the facts of each identity in turn, appended to one list
GatherFacts(stores, identities) ==
  IF Len(identities) = 0 THEN <<>>
  ELSE getFactsLocal(stores, identities[1].userId, identities[1].teamId)
         \o GatherFacts(stores, Tail(identities))

\* getFacts(userId, teamId): the facts of all linked identities, sorted
wsGetFacts(stores, links, userId, teamId) ==
  SortNewestFirst(GatherFacts(stores, getAllIdentities(links, userId, teamId)))

\* removeFact(userId, teamId, index): the stores it leaves, the boolean it
\* returns and the fact it spliced out
wsRemoveFact(stores, userId, teamId, index) ==
  LET r == removeFact(stores[teamId], userId, index)
  IN [stores |-> [stores EXCEPT ![teamId] = r.store], ok |-> r.ok,
      removed |-> IF r.ok THEN <<stores[teamId][userId].facts[index + 1]>> ELSE <<>>]

wsRemoveAllFacts(stores, userId, teamId) ==
  LET r == removeAllFacts(stores[teamId], userId)
  IN [stores |-> [stores EXCEPT ![teamId] = r.store], count |-> r.count]

\* facts held over all the team files
WsTotalFacts(stores) ==
  LET RECURSIVE Sum(_)
      Sum(ts) == IF ts = {} THEN 0
                 ELSE LET t == CHOOSE x \in ts : TRUE
                      IN TotalFacts(stores[t]) + Sum(ts \ {t})
  IN Sum(Teams)

----------------------------------------------------------------------------
(* auth.json as auth.ts reads and writes it *)

\* The document in auth.json.  auth.ts writes {owner, ownerLinkedIds, admins}
\* (fmt "old"); permissions.ts writes {owner, ownerLinkedIds, users,
\* workspaces} and no admins (fmt "new").  A missing file reads as the empty
\* document of either module.
NoAuthFile ==
  [fmt |-> "old", owner |-> "", ownerLinkedIds |-> <<>>, admins |-> <<>>,
   users |-> <<>>, workspaces |-> <<>>]

\* array.includes(x)
Includes(array, x) == \E i \in 1..Len(array) : array[i] = x

\* what a call leaves in the file and what it returns; threw marks a
\* TypeError raised on the way (store.admins is undefined in a "new" file)
Outcome(doc, value, threw) == [doc |-> doc, value |-> value, threw |-> threw]

IsOwnerId(doc, userId) == userId = doc.owner \/ Includes(doc.ownerLinkedIds, userId)

\* getTier(userId); "TypeError" when Object.entries(store.admins) throws
getTier(doc, userId) ==
  IF IsOwnerId(doc, userId) THEN "owner"
  ELSE IF doc.fmt = "new" THEN "TypeError"
  ELSE IF \E c \in DOMAIN doc.admins : c = userId \/ Includes(doc.admins[c].linkedIds, userId)
       THEN "admin"
  ELSE "guest"

\* a slip for hasPermission: an admin passes for the owner
hasPermissionAdminIsOwner(doc, userId, requiredTier) ==
  LET userTier == getTier(doc, userId)
  IN IF userTier = "TypeError" THEN "TypeError"
     ELSE IF requiredTier = "guest" THEN TRUE
     ELSE userTier = "admin" \/ userTier = "owner"

\* hasPermission(userId, requiredTier); "TypeError" when getTier throws
hasPermission(doc, userId, requiredTier) ==
  LET userTier == getTier(doc, userId)
  IN IF userTier = "TypeError" THEN "TypeError"
     ELSE IF requiredTier = "guest" THEN TRUE
     ELSE IF requiredTier = "admin" THEN userTier = "admin" \/ userTier = "owner"
     ELSE IF requiredTier = "owner" THEN userTier = "owner"
     ELSE FALSE

\* setOwner(userId): store.owner = userId, saved
setOwner(doc, userId) == [doc EXCEPT !.owner = userId]

linkOwner(doc, newId) ==
  IF doc.owner = "" THEN Outcome(doc, FALSE, FALSE)
  ELSE IF ~Includes(doc.ownerLinkedIds, newId)
  THEN Outcome([doc EXCEPT !.ownerLinkedIds = Append(@, newId)], TRUE, FALSE)
  ELSE Outcome(doc, TRUE, FALSE)

promoteToAdmin(doc, userId, displayName) ==
  IF doc.fmt = "new" THEN Outcome(doc, FALSE, TRUE)
  ELSE IF userId \in DOMAIN doc.admins THEN Outcome(doc, FALSE, FALSE)
  ELSE Outcome([doc EXCEPT !.admins =
                  Put(@, userId, [displayName |-> displayName, tier |-> "admin",
                                   linkedIds |-> <<>>])],
               TRUE, FALSE)

demoteAdmin(doc, canonicalId) ==
  IF doc.fmt = "new" THEN Outcome(doc, FALSE, TRUE)
  ELSE IF canonicalId \notin DOMAIN doc.admins THEN Outcome(doc, FALSE, FALSE)
  ELSE Outcome([doc EXCEPT !.admins = Delete(@, canonicalId)], TRUE, FALSE)

linkAdmin(doc, canonicalId, newId) ==
  IF doc.fmt = "new" THEN Outcome(doc, FALSE, TRUE)
  ELSE IF canonicalId \notin DOMAIN doc.admins THEN Outcome(doc, FALSE, FALSE)
  ELSE IF ~Includes(doc.admins[canonicalId].linkedIds, newId)
  THEN Outcome([doc EXCEPT !.admins[canonicalId].linkedIds = Append(@, newId)], TRUE, FALSE)
  ELSE Outcome(doc, TRUE, FALSE)

\* a slip for isOwnerConfigured: the linked ids are looked at, not the owner
isOwnerConfiguredByLinks(doc) == doc.ownerLinkedIds # <<>>

isOwnerConfigured(doc) == doc.owner # ""

----------------------------------------------------------------------------
(* inbox.ts: the "Jibot" list of Apple Reminders, reached through a tool *)

\* Each function runs the reminders tool with execSync; toolOk is whether
\* the tool exits normally.  The list is the titles of the open reminders.

\* addReminder(message, ...): the list it leaves and {success}
addReminder(box, message, toolOk) ==
  IF toolOk THEN [inbox |-> Append(box, message), success |-> TRUE]
  ELSE [inbox |-> box, success |-> FALSE]

\* getReminders(): [] when the tool fails
getReminders(box, toolOk) == IF toolOk THEN box ELSE <<>>

getReminderCount(box, toolOk) == Len(getReminders(box, toolOk))

\* clearReminderByTitle(title): `complete "<title>"` closes the first open
\* reminder of that title
clearReminderByTitle(box, title, toolOk) ==
  LET hits == {i \in 1..Len(box) : box[i] = title}
  IN IF ~toolOk \/ hits = {} THEN [inbox |-> box, success |-> FALSE]
     ELSE LET i == CHOOSE h \in hits : \A g \in hits : h <= g
          IN [inbox |-> SpliceOut(box, i - 1), success |-> TRUE]

\* clearReminderByIndex(index), 1-based: the list it leaves and whether a
\* reminder (found, with its title) or null is returned
clearReminderByIndex(box, index, toolOk) ==
  LET reminders == getReminders(box, toolOk)
      zeroIndex == index - 1
  IN IF zeroIndex < 0 \/ zeroIndex >= Len(reminders)
     THEN [inbox |-> box, found |-> FALSE, title |-> <<>>]
     ELSE LET result == clearReminderByTitle(box, reminders[zeroIndex + 1], toolOk)
          IN [inbox |-> result.inbox, found |-> result.success,
              title |-> IF result.success THEN reminders[zeroIndex + 1] ELSE <<>>]

RECURSIVE ClearEach(_, _, _, _)
\* the loop of clearAllReminders over the reminders it listed
ClearEach(box, reminders, cleared, toolOk) ==
  IF Len(reminders) = 0 THEN [inbox |-> box, count |-> cleared]
  ELSE LET result == clearReminderByTitle(box, reminders[1], toolOk)
       IN ClearEach(result.inbox, Tail(reminders),
                    IF result.success THEN cleared + 1 ELSE cleared, toolOk)

clearAllReminders(box, toolOk) == ClearEach(box, getReminders(box, toolOk), 0, toolOk)

----------------------------------------------------------------------------
(* The /jibot slash command *)

\* command.text.trim().split(/\s+/) is a sequence of words, each one atom

NoSuspend == [kind |-> "none", userId |-> "", targetId |-> "", message |-> <<>>]

\* what a run of the handler leaves: auth.json, the reminders, the text it
\* passes to respond() and, when it stops at `await client.users.info`, what
\* it goes on with
SlashOut(doc, box, kind, num, suspend) ==
  [auth |-> doc, inbox |-> box, reply |-> Reply(kind, "", <<>>, num, 0, <<>>),
   suspend |-> suspend]

\* args[i] (0-based), "" when there is none
Arg(args, i) == IF i + 1 <= Len(args) THEN args[i + 1] ELSE ""

\* args.slice(1).join(" ")
RestOf(args) ==
  IF Len(args) <= 1 THEN <<>>
  ELSE JoinFacts([i \in 1..(Len(args) - 1) |-> <<args[i + 1]>>], <<SP>>)

\* the replies that refuse a command for want of permission
PermissionErrors ==
  {"need_admin_inbox", "owner_only_clear", "owner_only_promote",
   "owner_only_demote", "owner_only_link", "need_admin"}

\* /jibot inbox ..., once the caller is known to be admin or owner
slashInbox(doc, box, userId, args, toolOk) ==
  LET action == LowerAtom(Arg(args, 1))
      target == LowerAtom(Arg(args, 2))
      num == parseInt(<<target>>)
      all == clearAllReminders(box, toolOk)
      one == clearReminderByIndex(box, num.val, toolOk)
  IN IF action = "clear"
     THEN IF hasPermission(doc, userId, "owner") # TRUE
          THEN SlashOut(doc, box, "owner_only_clear", 0, NoSuspend)
          ELSE IF target = "all"
          THEN SlashOut(doc, all.inbox, "cleared_all", all.count, NoSuspend)
          ELSE IF target # "" /\ ~isNaN(num) /\ num.val >= 1
          THEN IF one.found THEN SlashOut(doc, one.inbox, "cleared", num.val, NoSuspend)
               ELSE SlashOut(doc, one.inbox, "no_reminder", num.val, NoSuspend)
          ELSE SlashOut(doc, box, "usage", 0, NoSuspend)
     ELSE SlashOut(doc, box, "inbox", Len(getReminders(box, toolOk)), NoSuspend)

\* /jibot link @user UID, once the caller is known to be the owner
slashLink(doc, box, args) ==
  LET newUid == Arg(args, 2)
      targetId == MentionId[Arg(args, 1)]
      targetTier == getTier(doc, targetId)
  IN IF ~IsMention(Arg(args, 1)) \/ newUid = ""
     THEN SlashOut(doc, box, "usage", 0, NoSuspend)
     ELSE IF targetTier = "TypeError" THEN SlashOut(doc, box, "error", 0, NoSuspend)
     ELSE IF targetTier = "owner"
     THEN SlashOut(linkOwner(doc, newUid).doc, box, "linked_owner", 0, NoSuspend)
     ELSE IF targetTier = "admin"
     THEN SlashOut(linkAdmin(doc, targetId, newUid).doc, box, "linked_admin", 0, NoSuspend)
     ELSE SlashOut(doc, box, "must_be_admin", 0, NoSuspend)

\* The handler from `await ack()` to its next await.  An exception (getTier
\* on a file without admins) ends it with nothing written: reply "error".
slashCommand(doc, box, userId, args, toolOk) ==
  LET tier == getTier(doc, userId)
      subcommand == IF Arg(args, 0) = "" THEN "help" ELSE LowerAtom(Arg(args, 0))
      isOwner == hasPermission(doc, userId, "owner") = TRUE
      isAdmin == hasPermission(doc, userId, "admin") = TRUE
      demoted == demoteAdmin(doc, MentionId[Arg(args, 1)])
  IN IF tier = "TypeError" THEN SlashOut(doc, box, "error", 0, NoSuspend)
     ELSE IF subcommand = "help" THEN SlashOut(doc, box, "help", 0, NoSuspend)
     ELSE IF subcommand = "inbox"
     THEN IF ~isAdmin THEN SlashOut(doc, box, "need_admin_inbox", 0, NoSuspend)
          ELSE slashInbox(doc, box, userId, args, toolOk)
     ELSE IF subcommand = "admin"
     THEN IF ~isOwner THEN SlashOut(doc, box, "owner_only_promote", 0, NoSuspend)
          ELSE IF ~IsMention(Arg(args, 1)) THEN SlashOut(doc, box, "usage", 0, NoSuspend)
          ELSE SlashOut(doc, box, "none", 0,
                        [NoSuspend EXCEPT !.kind = "admin",
                                          !.targetId = MentionId[Arg(args, 1)]])
     ELSE IF subcommand = "demote"
     THEN IF ~isOwner THEN SlashOut(doc, box, "owner_only_demote", 0, NoSuspend)
          ELSE IF ~IsMention(Arg(args, 1)) THEN SlashOut(doc, box, "usage", 0, NoSuspend)
          ELSE IF demoted.threw THEN SlashOut(doc, box, "error", 0, NoSuspend)
          ELSE IF demoted.value THEN SlashOut(demoted.doc, box, "demoted", 0, NoSuspend)
          ELSE SlashOut(demoted.doc, box, "not_admin", 0, NoSuspend)
     ELSE IF subcommand = "link"
     THEN IF ~isOwner THEN SlashOut(doc, box, "owner_only_link", 0, NoSuspend)
          ELSE slashLink(doc, box, args)
     ELSE IF subcommand = "admins"
     THEN IF ~isAdmin THEN SlashOut(doc, box, "need_admin", 0, NoSuspend)
          ELSE SlashOut(doc, box, "admins", Cardinality(DOMAIN doc.admins), NoSuspend)
     ELSE IF subcommand = "setowner"
     THEN IF isOwnerConfigured(doc) THEN SlashOut(doc, box, "owner_already", 0, NoSuspend)
          ELSE SlashOut(setOwner(doc, userId), box, "owner_set", 0, NoSuspend)
     ELSE IF subcommand \in {"explain", "whatis"}
     THEN IF RestOf(args) = <<>> THEN SlashOut(doc, box, "usage", 0, NoSuspend)
          ELSE SlashOut(doc, box, "explain", 0, NoSuspend)
     ELSE IF subcommand = "remind"
     THEN IF RestOf(args) = <<>> THEN SlashOut(doc, box, "usage", 0, NoSuspend)
          ELSE SlashOut(doc, box, "none", 0,
                        [NoSuspend EXCEPT !.kind = "remind", !.userId = userId,
                                          !.message = RestOf(args)])
     ELSE SlashOut(doc, box, "unknown", 0, NoSuspend)

\* the handler after `await client.users.info`, displayName being what the
\* call gave ("" when it threw)
slashResume(doc, box, p, displayName, toolOk) ==
  LET promoted == promoteToAdmin(doc, p.targetId, displayName)
      added == addReminder(box, p.message, toolOk)
  IN IF p.kind = "admin"
     THEN IF promoted.threw THEN SlashOut(doc, box, "error", 0, NoSuspend)
          ELSE SlashOut(promoted.doc, box, "promoted", 0, NoSuspend)
     ELSE SlashOut(doc, added.inbox, "reminded",
                   getReminderCount(added.inbox, toolOk), NoSuspend)

----------------------------------------------------------------------------
(* auth.json as permissions.ts reads and writes it *)

Roles == {"owner", "admin", "member", "guest"}

ROLE_LEVELS == [owner |-> 100, admin |-> 50, member |-> 20, guest |-> 10]

\* users built from data.admins when the file has admins and no users
MigrateAdmins(admins) ==
  [id \in DOMAIN admins |->
     [displayName |-> IF admins[id].displayName # "" THEN admins[id].displayName
                      ELSE "Unknown",
      role |-> "admin", linkedIds |-> admins[id].linkedIds, addedBy |-> ""]]

\* loadAuth() of permissions.ts: the AuthData it returns for the file
loadRoles(doc) ==
  IF doc.fmt = "old"
  THEN [fmt |-> "new", owner |-> doc.owner, ownerLinkedIds |-> doc.ownerLinkedIds,
        admins |-> <<>>, users |-> MigrateAdmins(doc.admins), workspaces |-> <<>>]
  ELSE doc

\* getUserRole(userId, workspaceId); workspaceId "" when it is not given.
\* A record's addedAt, which nothing reads, is left out of the user records.
getUserRole(doc, userId, workspaceId) ==
  LET auth == loadRoles(doc)
      linking == {id \in DOMAIN auth.users : Includes(auth.users[id].linkedIds, userId)}
  IN IF IsOwnerId(auth, userId) THEN "owner"
     ELSE IF userId \in DOMAIN auth.users THEN auth.users[userId].role
     ELSE IF linking # {} THEN auth.users[CHOOSE id \in linking : TRUE].role
     ELSE IF workspaceId # "" /\ workspaceId \in DOMAIN auth.workspaces
     THEN auth.workspaces[workspaceId].defaultRole
     ELSE "guest"

hasRole(doc, userId, requiredRole, workspaceId) ==
  ROLE_LEVELS[getUserRole(doc, userId, workspaceId)] >= ROLE_LEVELS[requiredRole]

canManageRole(doc, managerId, targetRole, workspaceId) ==
  LET managerRole == getUserRole(doc, managerId, workspaceId)
  IN IF managerRole = "owner" THEN TRUE
     ELSE managerRole = "admin" /\ targetRole \in {"member", "guest"}

\* a slip for setUserRole: without the check that refuses the owner role
setUserRoleNoOwnerCheck(doc, targetUserId, role, displayName, managerId, workspaceId) ==
  LET auth == loadRoles(doc)
      linkedIds == IF targetUserId \in DOMAIN auth.users
                   THEN auth.users[targetUserId].linkedIds ELSE <<>>
  IN IF ~canManageRole(doc, managerId, role, workspaceId)
     THEN Outcome(doc, "no_permission", FALSE)
     ELSE IF IsOwnerId(auth, targetUserId) THEN Outcome(doc, "cannot_change_owner", FALSE)
     ELSE Outcome([auth EXCEPT !.users =
                     Put(@, targetUserId,
                         [displayName |-> displayName, role |-> role,
                          linkedIds |-> linkedIds, addedBy |-> managerId])],
                  "success", FALSE)

\* setUserRole: the file it leaves and the result it returns, "success" or
\* which error
setUserRole(doc, targetUserId, role, displayName, managerId, workspaceId) ==
  LET auth == loadRoles(doc)
      linkedIds == IF targetUserId \in DOMAIN auth.users
                   THEN auth.users[targetUserId].linkedIds ELSE <<>>
  IN IF ~canManageRole(doc, managerId, role, workspaceId)
     THEN Outcome(doc, "no_permission", FALSE)
     ELSE IF role = "owner" THEN Outcome(doc, "owner_only_by_setowner", FALSE)
     ELSE IF IsOwnerId(auth, targetUserId) THEN Outcome(doc, "cannot_change_owner", FALSE)
     ELSE Outcome([auth EXCEPT !.users =
                     Put(@, targetUserId,
                         [displayName |-> displayName, role |-> role,
                          linkedIds |-> linkedIds, addedBy |-> managerId])],
                  "success", FALSE)

\* a slip for removeUserRole: the record is set to guest, not deleted
removeUserRoleToGuest(doc, targetUserId, managerId, workspaceId) ==
  LET auth == loadRoles(doc)
      targetRole == getUserRole(doc, targetUserId, workspaceId)
  IN IF ~canManageRole(doc, managerId, targetRole, workspaceId)
     THEN Outcome(doc, "no_permission", FALSE)
     ELSE IF targetUserId \notin DOMAIN auth.users
     THEN Outcome(doc, "no_explicit_role", FALSE)
     ELSE Outcome([auth EXCEPT !.users[targetUserId].role = "guest"], "success", FALSE)

removeUserRole(doc, targetUserId, managerId, workspaceId) ==
  LET auth == loadRoles(doc)
      targetRole == getUserRole(doc, targetUserId, workspaceId)
  IN IF ~canManageRole(doc, managerId, targetRole, workspaceId)
     THEN Outcome(doc, "no_permission", FALSE)
     ELSE IF targetUserId \notin DOMAIN auth.users
     THEN Outcome(doc, "no_explicit_role", FALSE)
     ELSE Outcome([auth EXCEPT !.users = Delete(@, targetUserId)], "success", FALSE)

setWorkspaceDefault(doc, workspaceId, defaultRole, managerId) ==
  LET auth == loadRoles(doc)
  IN IF ~hasRole(doc, managerId, "admin", "") THEN Outcome(doc, "admins_only", FALSE)
     ELSE Outcome([auth EXCEPT !.workspaces =
                     Put(@, workspaceId, [defaultRole |-> defaultRole])],
                  "success", FALSE)

linkUserId(doc, primaryUserId, linkedUserId, managerId) ==
  LET auth == loadRoles(doc)
      targetRole == getUserRole(doc, primaryUserId, "")
  IN IF IsOwnerId(auth, managerId) /\ primaryUserId = auth.owner
     THEN IF ~Includes(auth.ownerLinkedIds, linkedUserId)
          THEN Outcome([auth EXCEPT !.ownerLinkedIds = Append(@, linkedUserId)],
                       "success", FALSE)
          ELSE Outcome(doc, "success", FALSE)
     ELSE IF ~canManageRole(doc, managerId, targetRole, "")
     THEN Outcome(doc, "no_permission", FALSE)
     ELSE IF primaryUserId \notin DOMAIN auth.users
     THEN Outcome(doc, "no_explicit_role", FALSE)
     ELSE IF ~Includes(auth.users[primaryUserId].linkedIds, linkedUserId)
     THEN Outcome([auth EXCEPT !.users[primaryUserId].linkedIds = Append(@, linkedUserId)],
                  "success", FALSE)
     ELSE Outcome(doc, "success", FALSE)

----------------------------------------------------------------------------
(* llm-parse.ts: the resolver that asks the language model, the skills *)

MAX_HISTORY == 10

Message(role, content) == [role |-> role, content |-> content]

\* Array.prototype.slice(-n)
SliceLast(arr, n) ==
  IF Len(arr) <= n THEN arr ELSE SubSeq(arr, Len(arr) - n + 1, Len(arr))

\* the object llmParse returns from its catch block
SafeFallback ==
  [keys |-> {"understanding", "skills", "fallback_response"},
   skills |-> <<>>,
   fallback_response |-> <<"I had trouble understanding that. Try: ...">>]

\* llmParse up to `await messages.create`: conversationHistory.get(userId)
\* || [], push of the user's turn (into the array the Map holds, when it
\* holds one), and slice(-MAX_HISTORY), which copies.  map is what the Map
\* holds then, history the array the call goes on with.
llmParseStart(map, userId, userInput) ==
  LET stored == userId \in DOMAIN map
      pushed == Append(IF stored THEN map[userId] ELSE <<>>, Message("user", userInput))
  IN [map |-> IF stored THEN Put(map, userId, pushed) ELSE map,
      history |-> IF Len(pushed) > MAX_HISTORY THEN SliceLast(pushed, MAX_HISTORY)
                  ELSE pushed]

\* llmParse from the answer of messages.create on: response.kind is
\* "api_error" (the call rejects), "not_text" (content[0].type), "no_json"
\* (no {...} in the text), "bad_json" (JSON.parse throws) or "json", with
\* the parsed object; text stands for the text of the answer
llmParseResume(map, userId, history, response, text) ==
  IF response.kind = "json"
  THEN [map |-> Put(map, userId, Append(history, Message("assistant", text))),
        result |-> response.object]
  ELSE [map |-> map, result |-> SafeFallback]

\* a value a skill handler or processWithLLM produces: a string (its
\* pieces), undefined, or a TypeError thrown instead
Display(text) == [threw |-> FALSE, type |-> "string", text |-> text]

UndefinedValue == [threw |-> FALSE, type |-> "undefined", text |-> <<>>]

Thrown == [threw |-> TRUE, type |-> "TypeError", text |-> <<>>]

\* a skill of the model's answer: its tag and the parameters it carries
Skill(tag, params) == [skill |-> tag, params |-> params]

\* `${skill.name}`: the value of a parameter is written as its name
Param(skill, name) == IF name \in skill.params THEN name ELSE "undefined"

\* what amplifier_bridge.py prints: success with data, success with an
\* empty list, success without data, or a failure with its error
BridgeResults ==
  { [success |-> TRUE, data |-> "items", error |-> ""],
    [success |-> TRUE, data |-> "empty", error |-> ""],
    [success |-> TRUE, data |-> "none", error |-> ""],
    [success |-> FALSE, data |-> "none", error |-> "bridge error"] }

\* callBridge: args.map(a => a.replace(...)) is inside the try, so an
\* undefined argument gives the failure object with the TypeError's message
callBridge(args, bridge) ==
  IF \E i \in 1..Len(args) : args[i] = "undefined"
  THEN [success |-> FALSE, data |-> "none", error |-> "Cannot read properties of undefined"]
  ELSE bridge

\* `${result.error || "Unknown error"}`
ErrorOf(result) == IF result.error = "" THEN "Unknown error" ELSE result.error

\* searchPerson / searchOrg of parse.ts: nothing found when the directory
\* is missing; otherwise query.toLowerCase() comes first, outside the try
searchPerson(query, env) ==
  IF ~env.dir THEN [threw |-> FALSE, found |-> FALSE]
  ELSE IF query = "undefined" THEN [threw |-> TRUE, found |-> FALSE]
  ELSE [threw |-> FALSE, found |-> env.found]

\* a list skill: the items, the empty list, or the failure text
ListSkill(result, many, none, failed) ==
  IF result.success /\ result.data = "items" THEN Display(many)
  ELSE IF result.success /\ result.data = "empty" THEN Display(none)
  ELSE Display(<<failed, ErrorOf(result)>>)

\* executeSkill(skill, slackClient) under the outcomes env of what it
\* calls: env.dir and env.found for the Switchboard directory, env.bridge
\* for the bridge, env.client and env.slack for the Slack client
executeSkill(skill, env) ==
  LET tag == skill.skill
      P(name) == Param(skill, name)
      Or(name, default) == IF name \in skill.params THEN name ELSE default
  IN CASE tag = "direct_response" -> Display(<<Or("message", "How can I help?")>>)
       [] tag \in {"person_lookup", "org_lookup"} ->
            LET result == searchPerson(P("query"), env)
            IN IF result.threw THEN Thrown
               ELSE IF result.found THEN Display(<<tag, "found", P("query")>>)
               ELSE Display(<<tag, "Couldn't find", P("query")>>)
       [] tag = "calendar_list" ->
            LET period == Or("period", "today")
                result == callBridge(<<period>>, env.bridge)
            IN ListSkill(result, <<"Calendar for", period>>, <<"No events", period>>,
                         "Could not fetch calendar")
       [] tag = "calendar_create" ->
            LET result == callBridge(<<P("description")>>, env.bridge)
            IN IF result.success /\ result.data # "none" THEN Display(<<"Created">>)
               ELSE Display(<<"Could not create event", ErrorOf(result)>>)
       [] tag = "email_search" ->
            LET result == callBridge(<<P("query"), "10">>, env.bridge)
            IN ListSkill(result, <<"Emails matching", P("query")>>,
                         <<"No emails found for", P("query")>>, "Could not search emails")
       [] tag = "inbox_list" ->
            LET result == callBridge(<<"Jibot">>, env.bridge)
            IN ListSkill(result, <<"Inbox">>, <<"Your inbox is empty!">>,
                         "Could not fetch inbox")
       [] tag = "slack_dm" ->
            IF ~env.client THEN Display(<<"Slack DM requires the bot to be running.">>)
            ELSE IF env.slack = "throws" THEN Display(<<"Failed to send message">>)
            ELSE IF env.slack = "not_ok" THEN Display(<<"Could not open DM with user", P("user_id")>>)
            ELSE Display(<<"Sent DM to", P("user_id"), P("message")>>)
       [] tag = "weather" ->
            LET result == callBridge(<<Or("location", "Tokyo")>>, env.bridge)
            IN IF result.success /\ result.data # "none" THEN Display(<<"weather detail">>)
               ELSE Display(<<"Could not get weather", ErrorOf(result)>>)
       [] tag = "web_search" ->
            LET result == callBridge(<<P("query"), "5">>, env.bridge)
            IN ListSkill(result, <<"Web search", P("query")>>,
                         <<"No results found for", P("query")>>, "Web search failed")
       [] tag = "web_fetch" ->
            LET result == callBridge(<<P("url"), "5000">>, env.bridge)
            IN IF result.success /\ result.data = "items"
               THEN Display(<<"Content from", P("url")>>)
               ELSE Display(<<"Could not fetch URL", ErrorOf(result)>>)
       [] tag = "email_compose" ->
            Display(<<"Draft Email", P("to"), P("subject"), P("body")>>)
       [] tag = "reminder_add" ->
            LET result == callBridge(<<P("title"), "Jibot", Or("notes", "")>>, env.bridge)
            IN IF result.success THEN Display(<<"Added to inbox", P("title")>>)
               ELSE Display(<<"Could not add reminder", ErrorOf(result)>>)
       [] OTHER -> Display(<<"Unknown skill", tag>>)

\* a slip for push: unshift
unshift(arr, x) == <<x>> \o arr

\* Array.prototype.push
push(arr, x) == Append(arr, x)

\* synthesizeResponse: the model's text, or skillResults.join("\n\n") when
\* the call fails or answers no text
synthesizeResponse(skillResults, answer) ==
  IF answer = "text" THEN Display(<<"synthesized">>)
  ELSE Display(JoinFacts(skillResults, <<"\n\n">>))

\* nothing returned yet
NoOut == [threw |-> FALSE, type |-> "none", text |-> <<>>]

\* a call of processWithLLM: where it stands (pc), its arguments, the array
\* llmParse works on, parsed.skills, the skills executeSkill was called
\* with so far, the results collected, and what the call returned
NoCall ==
  [pc |-> "idle", userId |-> "", userInput |-> 0, history |-> <<>>,
   skills |-> <<>>, invoked |-> <<>>, results |-> <<>>, out |-> NoOut]

\* processWithLLM from the return of llmParse to its next await: the
\* fallback when no skill is listed, else the call of executeSkill for the
\* first skill; parsed.skills.map throws when there is no skills key
processParsed(call, parsed) ==
  IF "skills" \notin parsed.keys
  THEN [call EXCEPT !.pc = "idle", !.history = <<>>, !.out = Thrown]
  ELSE IF Len(parsed.skills) = 0
  THEN [call EXCEPT !.pc = "idle", !.history = <<>>,
                    !.out = IF "fallback_response" \in parsed.keys
                            THEN Display(parsed.fallback_response)
                            ELSE UndefinedValue]
  ELSE [call EXCEPT !.pc = "skill", !.history = <<>>, !.skills = parsed.skills,
                    !.invoked = <<parsed.skills[1]>>]

\* processWithLLM from the return of one executeSkill to its next await:
\* results.push(result), then executeSkill for the next skill of the list,
\* or synthesizeResponse after the last; a rejection ends the call
processSkillResult(call, result) ==
  LET i == Len(call.invoked)
  IN IF result.threw THEN [call EXCEPT !.pc = "idle", !.out = Thrown]
     ELSE IF i < Len(call.skills)
     THEN [call EXCEPT !.results = push(@, result.text),
                       !.invoked = Append(@, call.skills[i + 1])]
     ELSE [call EXCEPT !.pc = "synthesis", !.results = push(@, result.text)]

----------------------------------------------------------------------------
(* parse.ts: the rule-based parser, parseCommand *)

\* lower.split(/\s+/) of a trimmed text: its words
Tokens(s) == SelectSeq(s, LAMBDA a : a # SP)

\* one word of a pattern: the atoms it accepts, and whether it may be absent
\* ((?:word\s+)?)
Word(atoms) == [atoms |-> atoms, opt |-> FALSE]

Maybe(atoms) == [atoms |-> atoms, opt |-> TRUE]

\* the atoms of the parser's inputs, for a position where any word may stand
ParseAtoms ==
  {"remind", "me", "to", "check", "my", "inbox", "find", "calendar", "for",
   "tomorrow", "what's", "on", "schedule", "who", "is", "bob", "help",
   "emails", "from", "call", "?"}

AnyWord == Word(ParseAtoms)

RECURSIVE MatchFrom(_, _, _, _)
\* where a pattern of words separated by \s+ ends when it is matched from
\* token i on (the index after its last token), 0 when it does not match;
\* an optional word is taken when it can be
MatchFrom(toks, i, pat, k) ==
  IF k > Len(pat) THEN i
  ELSE LET taken == IF i <= Len(toks) /\ toks[i] \in pat[k].atoms
                    THEN MatchFrom(toks, i + 1, pat, k + 1) ELSE 0
       IN IF taken # 0 THEN taken
          ELSE IF pat[k].opt THEN MatchFrom(toks, i, pat, k + 1) ELSE 0

\* the leftmost match of an unanchored pattern: [start, end], start 0 when
\* there is none
Search(toks, pat) ==
  LET hits == {i \in 1..Len(toks) : MatchFrom(toks, i, pat, 1) # 0}
      i == CHOOSE h \in hits : \A g \in hits : h <= g
  IN IF hits = {} THEN [start |-> 0, end |-> 0]
     ELSE [start |-> i, end |-> MatchFrom(toks, i, pat, 1)]

\* RegExp.prototype.test for the alternatives of one rule
Test(toks, pats) == \E pat \in pats : Search(toks, pat).start # 0

\* (.+?)(?:\?|$) from token i on: up to the first "?" or to the end
Rest(toks, i) ==
  LET marks == {j \in i..Len(toks) : toks[j] = "?"}
      stop == IF marks = {} THEN Len(toks) + 1
              ELSE CHOOSE j \in marks : \A g \in marks : j <= g
  IN SubSeq(toks, i, stop - 1)

\* the capture of the first of the patterns that matches, each followed
\* by \s+(.+?)(?:\?|$); <<>> when none does
RECURSIVE Capture(_, _)
Capture(toks, pats) ==
  IF Len(pats) = 0 THEN [matched |-> FALSE, words |-> <<>>]
  ELSE LET m == Search(toks, pats[1] \o <<AnyWord>>)
       IN IF m.start # 0
          THEN [matched |-> TRUE, words |-> Rest(toks, m.end - 1)]
          ELSE Capture(toks, Tail(pats))

WhatIs == {<<Word({"what's"})>>, <<Word({"what"}), Word({"is"})>>}

\* every pattern of heads followed by the words of tail
Then(heads, tail) == {h \o tail : h \in heads}

HelpPatterns ==
  {<<Word({"what"}), Word({"can"}), Word({"you"}), Word({"do"})>>, <<Word({"help"})>>}

\* the first alternative holds wherever inbox or reminder(s) stands, so the
\* other two add nothing to it
InboxPatterns ==
  {<<Word({"inbox", "reminder", "reminders"})>>,
   <<Word({"show", "list"}), Maybe({"my"}), Word({"inbox", "reminder", "reminders"})>>,
   <<Word({"my"}), Word({"inbox"})>>}

CalendarWords == {"calendar", "schedule", "meeting", "event", "events"}

CalendarQuestion ==
  {<<Word(CalendarWords), Maybe({"for"}), Word({"today", "tomorrow"})>>,
   <<Word(CalendarWords), Maybe({"for"}), Word({"this", "next"}), Word({"week"})>>}
    \cup Then(WhatIs, <<Maybe({"on"}), Word({"my"}), Word({"calendar", "schedule"})>>)

\* /my\s+(?:calendar|schedule)\s+(?:today|tomorrow|this\s+week)?/ : the
\* \s+ after the noun asks for a word to follow in the trimmed text
CalendarPatterns ==
  CalendarQuestion \cup {<<Word({"my"}), Word({"calendar", "schedule"}), AnyWord>>}

EmailAbout ==
  <<Word({"email", "emails", "message", "messages"}), Word({"from", "about", "regarding"})>>

EmailPatterns ==
  {EmailAbout,
   <<Word({"find", "search", "check"}), Maybe({"my"}), Word({"email", "emails"})>>,
   <<Word({"my"}), Word({"email", "emails"})>>}

\* the second email rule, after the person rules
LateEmailPatterns ==
  {EmailAbout,
   <<Word({"find", "search", "check"}), Maybe({"my"}), Word({"email", "emails", "inbox"})>>}

LateReminderPatterns ==
  {<<Word({"inbox", "reminder", "reminders"})>>,
   <<Word({"show", "list"}), Maybe({"my"}), Word({"reminder", "reminders"})>>}

\* the person patterns that end in \s+(.+?)(?:\?|$), in the order of the
\* array; the possessive pattern, fifth in the array, is matched apart
PersonBefore ==
  <<(<<Word({"who"}), Word({"is"})>>), (<<Word({"who's"})>>),
    (<<Word({"what"}), Word({"do"}), Word({"i", "we"}), Word({"know"}), Word({"about"})>>),
    (<<Word({"tell"}), Word({"me"}), Word({"about"})>>),
    (<<Word({"find", "lookup"}), Maybe({"person"})>>),
    (<<Word({"look"}), Word({"up"}), Maybe({"person"})>>)>>

PersonAfter == <<(<<Word({"email", "contact"}), Word({"for", "of"})>>)>>

\* (.+?)(?:'s|s')\s+(?:email|contact|info|phone|background): the words up
\* to the first one that ends in 's and stands before one of the nouns
Possessive(toks) ==
  LET m == Search(toks, <<Word({"what's", "who's", "bob's"}),
                          Word({"email", "contact", "info", "phone", "background"})>>)
  IN IF m.start = 0 THEN [matched |-> FALSE, words |-> <<>>]
     ELSE [matched |-> TRUE, words |-> SubSeq(toks, 1, m.start)]

\* the first person pattern that matches, and match[1]
PersonMatch(toks) ==
  LET before == Capture(toks, PersonBefore)
      own == Possessive(toks)
  IN IF before.matched THEN before
     ELSE IF own.matched THEN own
     ELSE Capture(toks, PersonAfter)

OrgPatterns ==
  <<(<<Word({"company", "org", "organization"}), Word({"called", "named"})>>)>>

RemindPatterns ==
  {<<Word({"remind"}), Word({"me"})>>,
   <<Word({"add"}), Maybe({"a"}), Word({"reminder"})>>,
   <<Word({"remember"}), Word({"to"})>>}

\* /(?:remind\s+me\s+to|remember\s+to|reminder\s+to)\s+(.+)/ : leftmost
\* match, the rest of the text
RemindMessage(toks) ==
  LET pats == {<<Word({"remind"}), Word({"me"}), Word({"to"}), AnyWord>>,
               <<Word({"remember", "reminder"}), Word({"to"}), AnyWord>>}
      hits == {Search(toks, p) : p \in pats} \ {[start |-> 0, end |-> 0]}
      m == CHOOSE h \in hits : \A g \in hits : h.start <= g.start
  IN IF hits = {} THEN <<>> ELSE SubSeq(toks, m.end - 1, Len(toks))

CalendarActionPatterns ==
  {<<Word({"schedule", "add", "create", "put"}), Maybe({"a"}),
     Word({"meeting", "event", "appointment"})>>,
   <<Word({"add", "put"}), Word({"on", "to"}), Maybe({"my"}), Word({"calendar"})>>}

NotePatterns ==
  {<<Word({"create", "make", "write", "add"}), Maybe({"a"}), Word({"note"})>>}

SlackPatterns ==
  {<<Word({"tell", "message", "dm"}), Word(DOMAIN MentionId)>>,
   <<Word({"send"}), Maybe({"a"}), Word({"message"}), Word({"to"}), Word(DOMAIN MentionId)>>}

EmailNotifyPatterns ==
  {<<Word({"email"}), Word({"bob@x.org"})>>,
   <<Word({"send"}), Maybe({"a", "an"}), Word({"email"}), Word({"to"}), Word({"bob@x.org"})>>}

\* the date a calendar question names; fallback is "today" in the first
\* calendar rule and nothing in the second
DateOf(toks, fallback) ==
  IF Test(toks, {<<Word({"today"})>>}) THEN <<"today">>
  ELSE IF Test(toks, {<<Word({"tomorrow"})>>}) THEN <<"tomorrow">>
  ELSE IF Test(toks, {<<Word({"this"}), Word({"week"})>>}) THEN <<"this", "week">>
  ELSE IF Test(toks, {<<Word({"next"}), Word({"week"})>>}) THEN <<"next", "week">>
  ELSE fallback

\* a ParseResult: the intent and the entity it carries (confidence and raw
\* are left out)
ParseResult(intent, entity, words) == [intent |-> intent, entity |-> entity, words |-> words]

\* the rules of parseCommand from the person patterns on
parseAfterNarrow(toks) ==
  LET person == PersonMatch(toks)
      org == Capture(toks, OrgPatterns)
  IN IF person.matched THEN ParseResult("lookup_person", "person", person.words)
     ELSE IF org.matched THEN ParseResult("lookup_org", "org", org.words)
     ELSE IF Test(toks, CalendarQuestion)
     THEN ParseResult("lookup_calendar", "date", DateOf(toks, <<>>))
     ELSE IF Test(toks, LateEmailPatterns) THEN ParseResult("lookup_email", "", <<>>)
     ELSE IF Test(toks, LateReminderPatterns) THEN ParseResult("lookup_reminder", "", <<>>)
     ELSE IF Test(toks, RemindPatterns)
     THEN ParseResult("action_remind", "message", RemindMessage(toks))
     ELSE IF Test(toks, CalendarActionPatterns)
     THEN ParseResult("action_calendar", "message", toks)
     ELSE IF Test(toks, NotePatterns) THEN ParseResult("action_note", "message", toks)
     ELSE IF Test(toks, SlackPatterns) THEN ParseResult("notify_slack", "slackUser", <<>>)
     ELSE IF Test(toks, EmailNotifyPatterns) THEN ParseResult("notify_email", "email", <<>>)
     ELSE IF Len(toks) <= 4 /\ ~Test(toks, {<<Word({"?"})>>})
     THEN ParseResult("lookup_person", "person", toks)
     ELSE ParseResult("unknown", "", <<>>)

\* a slip for parseCommand: the person patterns tried before the inbox,
\* calendar and email rules
parseCommandPersonFirst(text) ==
  LET toks == Tokens(toLowerCase(trim(text)))
  IN IF Test(toks, HelpPatterns) THEN ParseResult("unknown", "", <<>>)
     ELSE IF PersonMatch(toks).matched
     THEN ParseResult("lookup_person", "person", PersonMatch(toks).words)
     ELSE IF Test(toks, InboxPatterns) THEN ParseResult("lookup_reminder", "", <<>>)
     ELSE IF Test(toks, CalendarPatterns)
     THEN ParseResult("lookup_calendar", "date", DateOf(toks, <<"today">>))
     ELSE IF Test(toks, EmailPatterns) THEN ParseResult("lookup_email", "", <<>>)
     ELSE parseAfterNarrow(toks)

\* parseCommand(text): help, inbox, calendar and email first, then the rest
parseCommand(text) ==
  LET toks == Tokens(toLowerCase(trim(text)))
  IN IF Test(toks, HelpPatterns) THEN ParseResult("unknown", "", <<>>)
     ELSE IF Test(toks, InboxPatterns) THEN ParseResult("lookup_reminder", "", <<>>)
     ELSE IF Test(toks, CalendarPatterns)
     THEN ParseResult("lookup_calendar", "date", DateOf(toks, <<"today">>))
     ELSE IF Test(toks, EmailPatterns) THEN ParseResult("lookup_email", "", <<>>)
     ELSE parseAfterNarrow(toks)

NoParse == ParseResult("none", "", <<>>)

----------------------------------------------------------------------------
(* mud.ts: speech events of the MUD bridge, handleSpeech *)

\* a MudResponse: the handler that made it, its type, the words put into
\* its message and relay_to_slack
MudResponse(handler, words, relay) ==
  [handler |-> handler, type |-> "say", words |-> words, relay_to_slack |-> relay]

NoResponse == [handler |-> "none", type |-> "silent", words |-> <<>>, relay_to_slack |-> FALSE]

\* (.+?)\??$ from token i on: the rest, without a closing question mark
Query(toks, i) ==
  LET rest == SubSeq(toks, i, Len(toks))
  IN IF Len(rest) > 1 /\ rest[Len(rest)] = "?" THEN SubSeq(rest, 1, Len(rest) - 1)
     ELSE rest

\* /(?:who is|what do you know about)\s+(.+?)\??$/i, not anchored at the start
WhoIsQuery(toks) ==
  LET pats == {<<Word({"who"}), Word({"is"})>>,
               <<Word({"what"}), Word({"do"}), Word({"you"}), Word({"know"}), Word({"about"})>>}
      hits == {m \in {Search(toks, p) : p \in pats} : m.start # 0 /\ m.end <= Len(toks)}
      m == CHOOSE h \in hits : \A g \in hits : h.start <= g.start
  IN IF hits = {} THEN [matched |-> FALSE, words |-> <<>>]
     ELSE [matched |-> TRUE, words |-> Query(toks, m.end)]

\* /^(.+?)\s+is\s+(.+)$/i : the name is what stands before the first "is"
\* that has a word on either side
LearnMatch(toks) ==
  LET hits == {j \in 2..(Len(toks) - 1) : toks[j] = "is"}
      j == CHOOSE h \in hits : \A g \in hits : h <= g
  IN IF hits = {} THEN [matched |-> FALSE, name |-> <<>>, fact |-> <<>>]
     ELSE [matched |-> TRUE, name |-> SubSeq(toks, 1, j - 1),
           fact |-> SubSeq(toks, j + 1, Len(toks))]

\* handleWhoIsQuery, handleExplain and handleWhatIs under the outcomes env
\* of the Switchboard lookups
handleWhoIsQuery(query, env) ==
  IF env.org THEN MudResponse("who_is", <<"organization">> \o query, FALSE)
  ELSE MudResponse("who_is", <<"no information">> \o query, FALSE)

handleExplain(query, env) ==
  IF env.concept THEN MudResponse("explain", <<"concept">>, FALSE)
  ELSE IF env.similar THEN MudResponse("explain", <<"perhaps you meant">> \o query, FALSE)
  ELSE MudResponse("explain", <<"not in my archives">> \o query, FALSE)

handleWhatIs(query, env) ==
  IF env.org THEN MudResponse("what_is", <<"organization">>, FALSE)
  ELSE IF env.concept THEN MudResponse("what_is", <<"concept">>, FALSE)
  ELSE IF env.similar THEN MudResponse("what_is", <<"similar entries">> \o query, FALSE)
  ELSE MudResponse("what_is", <<"not in my records">> \o query, FALSE)

\* handleLearnFact: it only acknowledges, nothing is stored
handleLearnFact(name, fact) ==
  MudResponse("learn", <<"Noted.">> \o name \o <<"is">> \o fact, FALSE)

\* handleSpeech(event): who is, learn, explain, what is, help, broadcast,
\* tried in that order
handleSpeech(message, env) ==
  LET toks == Tokens(toLowerCase(trim(message)))
      whoIsMatch == WhoIsQuery(toks)
      learnMatch == LearnMatch(toks)
  IN IF whoIsMatch.matched THEN handleWhoIsQuery(whoIsMatch.words, env)
     ELSE IF learnMatch.matched /\ learnMatch.name[1] \notin {"who", "what"}
     THEN handleLearnFact(learnMatch.name, learnMatch.fact)
     ELSE IF Len(toks) >= 2 /\ toks[1] = "explain"
     THEN handleExplain(SubSeq(toks, 2, Len(toks)), env)
     ELSE IF Len(toks) >= 3 /\ toks[1] = "what" /\ toks[2] = "is"
     THEN handleWhatIs(Query(toks, 3), env)
     ELSE IF toks = <<"help">> \/ toks = <<>> THEN MudResponse("help", <<>>, FALSE)
     ELSE IF Len(toks) >= 2 /\ toks[1] = "broadcast"
     THEN MudResponse("broadcast", SubSeq(toks, 2, Len(toks)), TRUE)
     ELSE MudResponse("not_understood", <<>>, FALSE)

----------------------------------------------------------------------------
(* Reading and writing the files: loadPeople/savePeople, loadAuth/saveAuth *)

\* what the file system does during one operation: whether readFileSync
\* and whether writeFileSync work
IoOutcomes == [read : BOOLEAN, write : BOOLEAN]

\* what an operation leaves in its file and how it ended: error is "none",
\* "io" when the exception of the file system reaches the caller, "type"
\* for a TypeError
IoResult(file, error) == [file |-> file, error |-> error]

\* loadPeople(): {} when reading throws
loadPeople(file, io) == IF io.read THEN file ELSE <<>>

\* savePeople(store): the exception of writeFileSync is caught and logged
savePeople(file, store, io) == IoResult(IF io.write THEN store ELSE file, "none")

\* loadAuth() of mud.ts: the store without owner when reading throws
loadAuth(file, io) == IF io.read THEN file ELSE NoAuthFile

\* saveAuth(store) of mud.ts: the exception is caught and logged
saveAuth(file, store, io) == IoResult(IF io.write THEN store ELSE file, "none")

\* loadAuth() of permissions.ts reads the empty AuthData when reading throws
loadAuthData(file, io) == loadRoles(IF io.read THEN file ELSE NoAuthFile)

\* saveAuth(auth) of permissions.ts: writeFileSync stands outside any try
saveAuthData(file, auth, io) ==
  IF io.write THEN IoResult(auth, "none") ELSE IoResult(file, "io")

\* addFact(...) of people.ts on the file
addFactOnFile(file, userId, fact, addedBy, io) ==
  savePeople(file, addFact(loadPeople(file, io), userId, fact, addedBy, "", ""), io)

\* setOwner(userId) of mud.ts on the file
setOwnerOnFile(file, userId, io) == saveAuth(file, setOwner(loadAuth(file, io), userId), io)

\* promoteToAdmin(userId) of mud.ts on the file; nothing is saved for one
\* who is admin already
promoteToAdminOnFile(file, userId, io) ==
  LET out == promoteToAdmin(loadAuth(file, io), userId, "")
  IN IF out.threw THEN IoResult(file, "type")
     ELSE IF out.value THEN saveAuth(file, out.doc, io)
     ELSE IoResult(file, "none")

\* setUserRole(...) of permissions.ts on the file; it saves when it has
\* refused nothing
setUserRoleOnFile(file, targetUserId, role, managerId, io) ==
  LET out == setUserRole(loadAuthData(file, io), targetUserId, role, "", managerId, "")
  IN IF out.value = "success" THEN saveAuthData(file, out.doc, io)
     ELSE IoResult(file, "none")

\* no operation yet
NoIo == [op |-> "none", io |-> [read |-> TRUE, write |-> TRUE], error |-> "none"]

----------------------------------------------------------------------------
(* app.message *)

\* what the parsers make of each message, computed once
Parsed ==
  [text \in Messages |->
     [help |-> isHelpCommand(text), learnCmd |-> parseLearnCommand(text),
      whoIs |-> parseWhoIsCommand(text), forgetCmd |-> parseForgetCommand(text)]]

\* The app.message callback up to its first suspension, on the store it
\* finds: help, learn, who is, forget, tried in that order.  learn is the
\* learn command it suspends on (handleLearn awaits users.info before
\* addFact), NoMatch when it runs to its end.
messageHandler(store, text) ==
  LET learnCmd == Parsed[text].learnCmd
      whoIs == Parsed[text].whoIs
      forgetCmd == Parsed[text].forgetCmd
  IN IF Parsed[text].help
     THEN [store |-> store, reply |-> Reply("help", "", <<>>, 0, 0, <<>>), learn |-> NoMatch]
     ELSE IF learnCmd.matched
     THEN [store |-> store, reply |-> NoReply, learn |-> learnCmd]
     ELSE IF whoIs.matched
     THEN [store |-> store, reply |-> handleWhoIs(store, whoIs.userId), learn |-> NoMatch]
     ELSE IF forgetCmd.matched
     THEN LET r == handleForget(store, forgetCmd.userId, forgetCmd.index)
          IN [store |-> r.store, reply |-> r.reply, learn |-> NoMatch]
     ELSE [store |-> store, reply |-> NoReply, learn |-> NoMatch]

Init ==
  /\ people = <<>>
  /\ pending = EmptyBag
  /\ reply = NoReply
  /\ wsPeople = [t \in Teams |-> <<>>]
  /\ wsLinks = <<>>
  /\ now = 0
  /\ authJson = NoAuthFile
  /\ inbox = <<>>
  /\ slashPending = EmptyBag
  /\ conversationHistory = <<>>
  /\ llm = NoCall
  /\ turn = 0
  /\ parseText = <<>>
  /\ parseResult = NoParse
  /\ mudMessage = <<>>
  /\ mudResponse = NoResponse
  /\ ioResult = NoIo

AppMessage(text, senderId) ==
  \E r \in {messageHandler(people, text)} :
     /\ people' = r.store
     /\ reply' = r.reply
     /\ IF r.learn.matched
        THEN /\ TotalFacts(people) + BagCardinality(pending) < MaxFacts
             /\ BagCardinality(pending) < MaxPending
             /\ pending' = pending (+) SetToBag({[userId |-> r.learn.userId,
                                                  fact |-> r.learn.fact,
                                                  addedBy |-> senderId]})
        ELSE UNCHANGED pending
     /\ UNCHANGED <<wsVars, idVars, llmVars, parseVars, mudVars, ioVars>>

\* the rest of handleLearn, once users.info has answered (info) or thrown
LearnResume(p, info) ==
  \E r \in {handleLearn(people, p.userId, p.fact, p.addedBy, info)} :
     /\ people' = r.store
     /\ reply' = r.reply
     /\ pending' = pending (-) SetToBag({p})
     /\ UNCHANGED <<wsVars, idVars, llmVars, parseVars, mudVars, ioVars>>

Next ==
  \/ \E m \in Inbound : AppMessage(m[1], m[2])
  \/ \E p \in BagToSet(pending) : \E info \in {Profile(p.userId), NoProfile} :
       LearnResume(p, info)

Spec == Init /\ [][Next]_vars

----------------------------------------------------------------------------
(* The per-workspace fact store, called by its exported functions *)

\* addFact, dt milliseconds after the last reading of the clock
WsAddFact(id, fact, dt) ==
  /\ WsTotalFacts(wsPeople) < MaxWsFacts
  /\ now + dt <= MaxClock
  /\ now' = now + dt
  /\ wsPeople' = wsAddFact(wsPeople, id.userId, id.teamId, fact, "U1", now + dt)
  /\ UNCHANGED <<wsLinks, msgVars, reply, idVars, llmVars, parseVars, mudVars, ioVars>>

WsRemoveFact(id, index) ==
  /\ wsPeople' = wsRemoveFact(wsPeople, id.userId, id.teamId, index).stores
  /\ UNCHANGED <<wsLinks, now, msgVars, reply, idVars, llmVars, parseVars, mudVars, ioVars>>

WsRemoveAllFacts(id) ==
  /\ wsPeople' = wsRemoveAllFacts(wsPeople, id.userId, id.teamId).stores
  /\ UNCHANGED <<wsLinks, now, msgVars, reply, idVars, llmVars, parseVars, mudVars, ioVars>>

LinkUsers(id1, id2) ==
  /\ wsLinks' = linkUsers(wsLinks, id1.userId, id1.teamId, id2.userId, id2.teamId).links
  /\ UNCHANGED <<wsPeople, now, msgVars, reply, idVars, llmVars, parseVars, mudVars, ioVars>>

NextWs ==
  \/ \E id \in Identities, fact \in FactTexts, dt \in {0, 1} : WsAddFact(id, fact, dt)
  \/ \E id \in Identities, index \in 0..MaxWsFacts : WsRemoveFact(id, index)
  \/ \E id \in Identities : WsRemoveAllFacts(id)
  \/ \E id1 \in Identities, id2 \in Identities : LinkUsers(id1, id2)

SpecWs == Init /\ [][NextWs]_vars

----------------------------------------------------------------------------
(* The /jibot slash command over auth.json and the reminders *)

\* the words after /jibot
SlashTexts ==
  { <<>>, <<"inbox">>, <<"inbox", "clear">>, <<"inbox", "clear", "all">>,
    <<"inbox", "clear", "1">>, <<"inbox", "clear", "2">>,
    <<"admin">>, <<"admin", "<@U1>">>, <<"admin", "<@U2>">>,
    <<"demote", "<@U1>">>, <<"demote", "<@U2>">>,
    <<"link", "<@U1>">>, <<"link", "<@U1>", "U2">>,
    <<"admins">>, <<"setowner">>, <<"explain", "x">>,
    <<"remind">>, <<"remind", "x">>, <<"bogus">> }

\* whether the reminders tool may fail: only where the handler runs it
ToolOutcomes(uses) == IF uses THEN BOOLEAN ELSE {TRUE}

\* reminders a suspended handler is about to add
PendingReminders ==
  LET adding == {p \in BagToSet(slashPending) : p.kind = "remind"}
      RECURSIVE Count(_)
      Count(ps) == IF ps = {} THEN 0
                   ELSE LET p == CHOOSE x \in ps : TRUE
                        IN CopiesIn(p, slashPending) + Count(ps \ {p})
  IN Count(adding)

SlashCommand(userId, args, toolOk) ==
  \E r \in {slashCommand(authJson, inbox, userId, args, toolOk)} :
     /\ authJson' = r.auth
     /\ inbox' = r.inbox
     /\ reply' = r.reply
     /\ IF r.suspend.kind # "none"
        THEN /\ BagCardinality(slashPending) < MaxPending
             /\ r.suspend.kind = "remind" => Len(inbox) + PendingReminders < MaxReminders
             /\ slashPending' = slashPending (+) SetToBag({r.suspend})
        ELSE UNCHANGED slashPending
     /\ UNCHANGED <<msgVars, wsVars, llmVars, parseVars, mudVars, ioVars>>

SlashResume(p, displayName, toolOk) ==
  \E r \in {slashResume(authJson, inbox, p, displayName, toolOk)} :
     /\ authJson' = r.auth
     /\ inbox' = r.inbox
     /\ reply' = r.reply
     /\ slashPending' = slashPending (-) SetToBag({p})
     /\ UNCHANGED <<msgVars, wsVars, llmVars, parseVars, mudVars, ioVars>>

NextSlash ==
  \/ \E userId \in UserIds, args \in SlashTexts :
       \E toolOk \in ToolOutcomes(Arg(args, 0) = "inbox") :
         SlashCommand(userId, args, toolOk)
  \/ \E p \in BagToSet(slashPending) : \E toolOk \in ToolOutcomes(p.kind = "remind") :
       \E displayName \in {Profile(IF p.kind = "admin" THEN p.targetId
                                     ELSE p.userId).displayName, ""} :
         SlashResume(p, displayName, toolOk)

SpecSlash == Init /\ [][NextSlash]_vars

----------------------------------------------------------------------------
(* auth.json under the owner claim and the functions of auth.ts and *)
(* permissions.ts that manage admins and roles                      *)

\* ids linked to an identity
LinkIds == {"U2"}

\* workspaces a role is asked for in; "" when none is given
Workspaces == {"T1"}

\* default roles given to a workspace
DefaultRoles == {"member", "owner"}

\* what a function of auth.ts returned (a boolean, or nothing), kept where
\* the replies are kept
Returned(out) ==
  Reply(IF out.threw THEN "error" ELSE IF out.value THEN "true" ELSE "false",
        "", <<>>, 0, 0, <<>>)

\* the result a function of permissions.ts returned
Result(out) == Reply(out.value, "", <<>>, 0, 0, <<>>)

\* `/jibot setowner` from userId
ClaimOwner(userId) ==
  \E r \in {slashCommand(authJson, inbox, userId, <<"setowner">>, TRUE)} :
     /\ authJson' = r.auth
     /\ reply' = r.reply
     /\ UNCHANGED <<inbox, slashPending, msgVars, wsVars, llmVars, parseVars, mudVars, ioVars>>

PromoteToAdmin(userId) ==
  \E out \in {promoteToAdmin(authJson, userId, "")} :
     /\ authJson' = out.doc
     /\ reply' = Returned(out)
     /\ UNCHANGED <<inbox, slashPending, msgVars, wsVars, llmVars, parseVars, mudVars, ioVars>>

DemoteAdmin(canonicalId) ==
  \E out \in {demoteAdmin(authJson, canonicalId)} :
     /\ authJson' = out.doc
     /\ reply' = Returned(out)
     /\ UNCHANGED <<inbox, slashPending, msgVars, wsVars, llmVars, parseVars, mudVars, ioVars>>

LinkOwner(newId) ==
  \E out \in {linkOwner(authJson, newId)} :
     /\ authJson' = out.doc
     /\ reply' = Returned(out)
     /\ UNCHANGED <<inbox, slashPending, msgVars, wsVars, llmVars, parseVars, mudVars, ioVars>>

LinkAdmin(canonicalId, newId) ==
  \E out \in {linkAdmin(authJson, canonicalId, newId)} :
     /\ authJson' = out.doc
     /\ reply' = Returned(out)
     /\ UNCHANGED <<inbox, slashPending, msgVars, wsVars, llmVars, parseVars, mudVars, ioVars>>

SetUserRole(targetUserId, role, managerId, workspaceId) ==
  \E out \in {setUserRole(authJson, targetUserId, role,
                         Profile(targetUserId).displayName, managerId, workspaceId)} :
     /\ authJson' = out.doc
     /\ reply' = Result(out)
     /\ UNCHANGED <<inbox, slashPending, msgVars, wsVars, llmVars, parseVars, mudVars, ioVars>>

RemoveUserRole(targetUserId, managerId, workspaceId) ==
  \E out \in {removeUserRole(authJson, targetUserId, managerId, workspaceId)} :
     /\ authJson' = out.doc
     /\ reply' = Result(out)
     /\ UNCHANGED <<inbox, slashPending, msgVars, wsVars, llmVars, parseVars, mudVars, ioVars>>

SetWorkspaceDefault(workspaceId, defaultRole, managerId) ==
  \E out \in {setWorkspaceDefault(authJson, workspaceId, defaultRole, managerId)} :
     /\ authJson' = out.doc
     /\ reply' = Result(out)
     /\ UNCHANGED <<inbox, slashPending, msgVars, wsVars, llmVars, parseVars, mudVars, ioVars>>

LinkUserId(primaryUserId, linkedUserId, managerId) ==
  \E out \in {linkUserId(authJson, primaryUserId, linkedUserId, managerId)} :
     /\ authJson' = out.doc
     /\ reply' = Result(out)
     /\ UNCHANGED <<inbox, slashPending, msgVars, wsVars, llmVars, parseVars, mudVars, ioVars>>

NextIdentity ==
  \/ \E userId \in UserIds : ClaimOwner(userId)
  \/ \E userId \in UserIds : PromoteToAdmin(userId)
  \/ \E canonicalId \in UserIds : DemoteAdmin(canonicalId)
  \/ \E newId \in LinkIds : LinkOwner(newId)
  \/ \E canonicalId \in UserIds, newId \in LinkIds : LinkAdmin(canonicalId, newId)
  \/ \E targetUserId \in UserIds, role \in Roles, managerId \in UserIds,
        workspaceId \in Workspaces \cup {""} :
       SetUserRole(targetUserId, role, managerId, workspaceId)
  \/ \E targetUserId \in UserIds, managerId \in UserIds,
        workspaceId \in Workspaces \cup {""} :
       RemoveUserRole(targetUserId, managerId, workspaceId)
  \/ \E workspaceId \in Workspaces, defaultRole \in DefaultRoles, managerId \in UserIds :
       SetWorkspaceDefault(workspaceId, defaultRole, managerId)
  \/ \E primaryUserId \in UserIds, linkedUserId \in LinkIds, managerId \in UserIds :
       LinkUserId(primaryUserId, linkedUserId, managerId)

SpecIdentity == Init /\ [][NextIdentity]_vars

----------------------------------------------------------------------------
(* processWithLLM, one call at a time, step by step between its awaits *)

LlmUsers == {"U1"}

\* the skills the model's answers list: a plain answer, a person lookup
\* without its query, the weather
ListedSkills ==
  {Skill("direct_response", {"message"}), Skill("person_lookup", {}),
   Skill("weather", {"location"})}

SkillLists == UNION {[1..n -> ListedSkills] : n \in 0..MaxSkills}

\* the objects JSON.parse yields: all three keys, no skills, no fallback_response
JsonObjects ==
  {[keys |-> {"understanding", "skills", "fallback_response"},
    skills |-> s, fallback_response |-> <<"fallback">>] : s \in SkillLists}
    \cup {[keys |-> {"understanding", "skills"},
           skills |-> s, fallback_response |-> <<>>] : s \in SkillLists}
    \cup {[keys |-> {"understanding", "fallback_response"},
           skills |-> <<>>, fallback_response |-> <<"fallback">>]}

Malformed == {"no_json", "bad_json"}

\* what messages.create and the parsing of its answer can come to
Responses ==
  {[kind |-> k, object |-> SafeFallback] : k \in {"api_error", "not_text"} \cup Malformed}
    \cup {[kind |-> "json", object |-> o] : o \in JsonObjects}

\* the outcomes of what executeSkill calls
Envs ==
  [dir : BOOLEAN, found : BOOLEAN, bridge : BridgeResults, client : BOOLEAN,
   slack : {"ok", "not_ok", "throws"}]

\* the outcomes the listed skills depend on
RunEnvs == {env \in Envs : env.found /\ env.client /\ env.slack = "ok"}

\* a message reaches processWithLLM: llmParse up to messages.create; the
\* n-th call carries the text n
ProcessWithLLM(userId) ==
  /\ llm.pc = "idle"
  /\ turn < MaxTurns
  /\ turn' = turn + 1
  /\ \E s \in {llmParseStart(conversationHistory, userId, turn + 1)} :
       /\ conversationHistory' = s.map
       /\ llm' = [NoCall EXCEPT !.pc = "parse", !.userId = userId,
                                !.userInput = turn + 1, !.history = s.history]
  /\ UNCHANGED <<msgVars, reply, wsVars, idVars, parseVars, mudVars, ioVars>>

\* messages.create settles: the rest of llmParse, then processWithLLM up to
\* its next await
LlmParseReturn(response) ==
  /\ llm.pc = "parse"
  /\ \E r \in {llmParseResume(conversationHistory, llm.userId, llm.history,
                              response, llm.userInput)} :
       /\ conversationHistory' = r.map
       /\ llm' = processParsed(llm, r.result)
  /\ UNCHANGED <<turn, msgVars, reply, wsVars, idVars, parseVars, mudVars, ioVars>>

\* the executeSkill that is running settles
SkillReturn(env) ==
  /\ llm.pc = "skill"
  /\ llm' = processSkillResult(llm, executeSkill(llm.skills[Len(llm.invoked)], env))
  /\ UNCHANGED <<conversationHistory, turn, msgVars, reply, wsVars, idVars, parseVars, mudVars, ioVars>>

\* synthesizeResponse settles and processWithLLM returns
SynthesisReturn(answer) ==
  /\ llm.pc = "synthesis"
  /\ llm' = [llm EXCEPT !.pc = "idle", !.out = synthesizeResponse(llm.results, answer)]
  /\ UNCHANGED <<conversationHistory, turn, msgVars, reply, wsVars, idVars, parseVars, mudVars, ioVars>>

NextLlm ==
  \/ \E userId \in LlmUsers : ProcessWithLLM(userId)
  \/ \E response \in Responses : LlmParseReturn(response)
  \/ \E env \in RunEnvs : SkillReturn(env)
  \/ \E answer \in {"text", "not_text", "error"} : SynthesisReturn(answer)

SpecLlm == Init /\ [][NextLlm]_vars

----------------------------------------------------------------------------
(* parseCommand on the texts of a direct message *)

\* the phrases the texts are made of
Phrases ==
  {<<"remind", "me", "to">>, <<"check", "my", "inbox">>,
   <<"find", "my", "calendar", "for", "tomorrow">>, <<"what's", "on", "my", "schedule">>,
   <<"who", "is", "bob">>, <<"call", "bob">>, <<"emails", "from", "bob">>, <<"help">>}

\* up to MaxPhrases phrases, all words joined by single spaces
ParseTexts ==
  {Words([i \in 1..Len(JoinFacts(ps, <<>>)) |-> <<JoinFacts(ps, <<>>)[i]>>]) :
     ps \in UNION {[1..n -> Phrases] : n \in 1..MaxPhrases}}

\* parseCommand keeps nothing between calls, so each text is parsed once,
\* from the start
ParseCommand(text) ==
  /\ parseResult = NoParse
  /\ parseText' = text
  /\ parseResult' = parseCommand(text)
  /\ UNCHANGED <<msgVars, reply, wsVars, idVars, llmVars, mudVars, ioVars>>

NextParse == \E text \in ParseTexts : ParseCommand(text)

SpecParse == Init /\ [][NextParse]_vars

----------------------------------------------------------------------------
(* Speech events sent to the MUD bridge *)

MudWords == {"broadcast", "explain", "who", "what", "is", "bob", "?"}

\* what is said to Jibot: up to MaxMudWords words
MudMessages ==
  {Words([i \in 1..Len(ws) |-> <<ws[i]>>]) :
     ws \in UNION {[1..n -> MudWords] : n \in 0..MaxMudWords}}

\* the outcomes of lookupOrganization, lookupConcept and searchSwitchboard
MudEnvs == [org : BOOLEAN, concept : BOOLEAN, similar : BOOLEAN]

\* handleSpeech keeps nothing between events, so each message is taken
\* once, from the start
SpeechEvent(message, env) ==
  /\ mudResponse = NoResponse
  /\ mudMessage' = message
  /\ mudResponse' = handleSpeech(message, env)
  /\ UNCHANGED <<msgVars, reply, wsVars, idVars, llmVars, parseVars, ioVars>>

NextMud == \E message \in MudMessages, env \in MudEnvs : SpeechEvent(message, env)

SpecMud == Init /\ [][NextMud]_vars

----------------------------------------------------------------------------
(* The stores under failing reads and writes *)

AddFactIo(userId, fact, io) ==
  /\ TotalFacts(people) < MaxFacts
  /\ \E r \in {addFactOnFile(people, userId, fact, "U1", io)} :
       /\ people' = r.file
       /\ ioResult' = [op |-> "addFact", io |-> io, error |-> r.error]
  /\ UNCHANGED <<pending, reply, wsVars, idVars, llmVars, parseVars, mudVars>>

SetOwnerIo(userId, io) ==
  \E r \in {setOwnerOnFile(authJson, userId, io)} :
     /\ authJson' = r.file
     /\ ioResult' = [op |-> "setOwner", io |-> io, error |-> r.error]
     /\ UNCHANGED <<inbox, slashPending, msgVars, reply, wsVars, llmVars, parseVars, mudVars>>

PromoteToAdminIo(userId, io) ==
  \E r \in {promoteToAdminOnFile(authJson, userId, io)} :
     /\ authJson' = r.file
     /\ ioResult' = [op |-> "promoteToAdmin", io |-> io, error |-> r.error]
     /\ UNCHANGED <<inbox, slashPending, msgVars, reply, wsVars, llmVars, parseVars, mudVars>>

SetUserRoleIo(targetUserId, role, managerId, io) ==
  \E r \in {setUserRoleOnFile(authJson, targetUserId, role, managerId, io)} :
     /\ authJson' = r.file
     /\ ioResult' = [op |-> "setUserRole", io |-> io, error |-> r.error]
     /\ UNCHANGED <<inbox, slashPending, msgVars, reply, wsVars, llmVars, parseVars, mudVars>>

\* addReminder and getReminders, the reminders tool working or not
AddReminderIo(message, toolOk) ==
  /\ Len(inbox) < MaxReminders
  /\ inbox' = addReminder(inbox, message, toolOk).inbox
  /\ ioResult' = [op |-> "addReminder", io |-> [read |-> toolOk, write |-> toolOk],
                  error |-> "none"]
  /\ UNCHANGED <<authJson, slashPending, msgVars, reply, wsVars, llmVars, parseVars, mudVars>>

\* whose facts are added, which fact, and who claims the owner's place
IoSubjects == {"U1"}

IoFacts == {<<"a">>}

NextIo ==
  \/ \E userId \in IoSubjects, fact \in IoFacts, io \in IoOutcomes : AddFactIo(userId, fact, io)
  \/ \E userId \in IoSubjects, io \in IoOutcomes : SetOwnerIo(userId, io)
  \/ \E userId \in UserIds, io \in IoOutcomes : PromoteToAdminIo(userId, io)
  \/ \E targetUserId \in UserIds, role \in Roles, managerId \in UserIds, io \in IoOutcomes :
       SetUserRoleIo(targetUserId, role, managerId, io)
  \/ \E toolOk \in BOOLEAN : AddReminderIo(<<"x">>, toolOk)

SpecIo == Init /\ [][NextIo]_vars

----------------------------------------------------------------------------
(* Properties of the forget, learn and recall commands *)

\* the handler's outcome for `jibot forget <@u> arg` on the current store
Forget(store, u, arg) == messageHandler(store, ForgetText(u, arg))

FactTextsOf(facts) == [i \in 1..Len(facts) |-> facts[i].fact]

\* every record but u's is what it was
OthersUnchanged(before, after, u) ==
  \A t \in UserIds \ {u} :
    /\ Known(after, t) <=> Known(before, t)
    /\ Known(before, t) => after[t] = before[t]

IsDecimal(arg) ==
  arg # <<>> /\ \A i \in 1..Len(arg) : arg[i] \in {"0", "1", "2", "3", "4", "5", "6", "7", "8", "9"}

RECURSIVE DecimalValue(_, _)
\* the number a string of decimal digits writes, read left to right
DecimalValue(arg, acc) ==
  IF arg = <<>> THEN acc ELSE DecimalValue(Tail(arg), 10 * acc + DigitVal[Head(arg)])

\* C1: for a subject S with facts f1..fk and 1 <= i <= k, `forget S i`
\* removes exactly fi, returns fi's text, keeps the other facts in order (a
\* following `forget S` lists them renumbered, a following `forget S 1`
\* removes the new first one) and leaves every other subject unchanged.
C1_ForgetRemovesExactlyFi ==
  \A u \in DOMAIN people : \A i \in 1..Len(people[u].facts) :
    LET facts == people[u].facts
        k == Len(facts)
        r == Forget(people, u, <<DigitAtom(i)>>)
        after == getFacts(r.store, u)
        list == Forget(r.store, u, <<>>)
        first == Forget(r.store, u, <<"1">>)
    IN /\ r.reply = Reply("forgot", u, facts[i].fact, 0, 0, <<>>)
       /\ Len(after) = k - 1
       /\ \A j \in 1..(k - 1) : after[j] = IF j < i THEN facts[j] ELSE facts[j + 1]
       /\ OthersUnchanged(people, r.store, u)
       /\ k > 1 => /\ list.reply = Reply("fact_list", u, <<>>, 0, 0, FactTextsOf(after))
                   /\ list.store = r.store
                   /\ first.reply = Reply("forgot", u, after[1].fact, 0, 0, <<>>)
                   /\ getFacts(first.store, u) = Tail(after)

\* C1 witness: a fact of a three-fact subject has just been forgotten
C1_Witness ==
  /\ reply.kind = "forgot"
  /\ Known(people, reply.userId)
  /\ Len(people[reply.userId].facts) = 2

\* C2: a forget command whose selector is neither all/everything nor a
\* decimal integer between 1 and the number of stored facts never changes
\* the store; an out-of-range integer yields the "no fact #n, only have K"
\* reply and any other token is treated like the no-argument form.
C2_OtherSelectorsListOnly ==
  \A u \in UserIds : \A arg \in ForgetArgs :
    LET k == Len(getFacts(people, u))
        r == Forget(people, u, arg)
        position == IsDecimal(arg) /\ DecimalValue(arg, 0) >= 1
    IN (arg \notin {<<"all">>, <<"everything">>}
          /\ ~(position /\ DecimalValue(arg, 0) <= k))
       => /\ r.store = people
          /\ r.reply = IF position
                       THEN Reply("no_such_fact", u, <<>>, DecimalValue(arg, 0), k, <<>>)
                       ELSE Forget(people, u, <<>>).reply

C4_ForgetAllIdempotent ==
  \A u \in UserIds :
    LET k == Len(getFacts(people, u))
        r1 == Forget(people, u, <<"all">>)
        r2 == Forget(r1.store, u, <<"all">>)
    IN /\ r1.reply = IF k = 0 THEN NothingToForget(u)
                     ELSE Reply("forgot_all", u, <<>>, 0, k, <<>>)
       /\ r2.reply = NothingToForget(u)
       /\ r2.store = r1.store
       /\ getFacts(r1.store, u) = <<>>
       /\ OthersUnchanged(people, r1.store, u)

\* C4 witness: everything (several facts) about a subject has been forgotten
C4_Witness ==
  /\ reply.kind = "forgot_all" /\ reply.count >= 2
  /\ ~Known(people, reply.userId)

\* C5: no person record with an empty fact list exists.
C5_NoEmptyRecord == \A u \in DOMAIN people : Len(people[u].facts) >= 1

\* C5 witness: the last fact of a subject has been forgotten, another
\* subject is still known
C5_Witness ==
  /\ reply.kind = "forgot"
  /\ ~Known(people, reply.userId)
  /\ DOMAIN people # {}

EndsWith(text, suffix) ==
  /\ Len(text) >= Len(suffix)
  /\ SubSeq(text, Len(text) - Len(suffix) + 1, Len(text)) = suffix

\* C7: a learn command `jibot <@S> is T` from U adds exactly the fact
\* {T, U} at the end of S's list and leaves the earlier facts and the other
\* subjects unchanged; when S had no facts, the following `who is <@S>?`
\* returns the sentence T with no duplicated trailing punctuation.
C7_LearnThenWhoIs ==
  \A p \in BagToSet(pending) : \A info \in {Profile(p.userId), NoProfile} :
    LET before == getFacts(people, p.userId)
        r == handleLearn(people, p.userId, p.fact, p.addedBy, info)
        said == messageHandler(r.store, WhoIsText(p.userId)).reply
    IN /\ getFacts(r.store, p.userId)
            = Append(before, [fact |-> p.fact, addedBy |-> p.addedBy])
       /\ OthersUnchanged(people, r.store, p.userId)
       /\ before = <<>> =>
            /\ said.kind = "who_is"
            /\ IF EndsWith(p.fact, <<".">>)
               THEN EndsWith(said.text, <<SP, "is", SP>> \o p.fact)
               ELSE EndsWith(said.text, <<SP, "is", SP>> \o p.fact \o <<".">>)
            /\ ~EndsWith(said.text, <<".", ".">>)

\* C6: in the per-workspace store the facts getFacts returns for a subject
\* are in insertion order (no fact comes before one added earlier), and
\* removing position n deletes the fact shown at position n of that list,
\* linked identities or not
C6_ShownPositionIsRemoved ==
  \A id \in Identities :
    LET shown == wsGetFacts(wsPeople, wsLinks, id.userId, id.teamId)
    IN /\ \A i \in 1..Len(shown), j \in 1..Len(shown) :
            i < j => shown[i].addedAt <= shown[j].addedAt
       /\ \A n \in 1..Len(shown) :
            LET r == wsRemoveFact(wsPeople, id.userId, id.teamId, n - 1)
            IN r.ok /\ r.removed = <<shown[n]>>

----------------------------------------------------------------------------
(* Properties of the owner claim and of the gates of the slash command *)

\* C8: `/jibot setowner` sets the owner exactly once: with no owner stored
\* a claim by any user makes that user the owner, and in every state with
\* an owner stored, whatever ran or is suspended in between, a claim by any
\* user (the owner too) is refused and leaves auth.json as it is
C8_SetOwnerOnce ==
  \A userId \in UserIds :
    LET r == slashCommand(authJson, inbox, userId, <<"setowner">>, TRUE)
    IN IF authJson.owner = ""
       THEN r.reply.kind = "owner_set" /\ r.auth.owner = userId
       ELSE r.reply.kind = "owner_already" /\ r.auth = authJson

\* an owner is stored and a later claim has just been refused
C8_Witness == authJson.owner # "" /\ reply.kind = "owner_already"

\* the commands C10 names, for a caller of the tier given
Gated(args, tier) ==
  LET subcommand == LowerAtom(Arg(args, 0))
  IN \/ /\ tier # "owner"
        /\ \/ subcommand \in {"admin", "demote", "link"}
           \/ subcommand = "inbox" /\ LowerAtom(Arg(args, 1)) = "clear"
     \/ tier = "guest" /\ subcommand \in {"inbox", "admins"}

\* C10: admin, demote, link and inbox clear from a caller who is not the
\* owner, and inbox and admins from a guest, get a permission error and
\* leave auth.json and the reminders as they are, with nothing suspended
C10_GatedCommandsRefused ==
  \A userId \in UserIds, args \in SlashTexts, toolOk \in BOOLEAN :
    Gated(args, getTier(authJson, userId)) =>
      LET r == slashCommand(authJson, inbox, userId, args, toolOk)
      IN /\ r.reply.kind \in PermissionErrors
         /\ r.auth = authJson
         /\ r.inbox = inbox
         /\ r.suspend = NoSuspend

\* an admin has just been refused `inbox clear` while reminders are open
C10_Witness ==
  /\ reply.kind = "owner_only_clear"
  /\ Len(inbox) > 0
  /\ DOMAIN authJson.admins # {}

\* auth.json after each admin-management call that can be made on doc
AfterAdminManagement(doc) ==
  {promoteToAdmin(doc, u, d).doc : u \in UserIds, d \in {"", "Al"}}
    \cup {demoteAdmin(doc, u).doc : u \in UserIds}
    \cup {linkOwner(doc, n).doc : n \in LinkIds}
    \cup {linkAdmin(doc, u, n).doc : u \in UserIds, n \in LinkIds}
    \cup {setUserRole(doc, u, r, "N", m, w).doc :
            u \in UserIds, r \in Roles, m \in UserIds, w \in Workspaces \cup {""}}
    \cup {removeUserRole(doc, u, m, w).doc :
            u \in UserIds, m \in UserIds, w \in Workspaces \cup {""}}
    \cup {linkUserId(doc, u, n, m).doc : u \in UserIds, n \in LinkIds, m \in UserIds}

\* no admin-management call on the file writes another owner, and set-role
\* asked for the owner role, or for the owner or an id linked to the owner,
\* fails and leaves the file as it is
OwnerOutOfReach ==
  /\ \A doc \in AfterAdminManagement(authJson) : doc.owner = authJson.owner
  /\ \A u \in UserIds, r \in Roles, m \in UserIds, w \in Workspaces \cup {""} :
       (r = "owner" \/ IsOwnerId(authJson, u)) =>
         LET out == setUserRole(authJson, u, r, "N", m, w)
         IN out.value # "success" /\ out.doc = authJson

\* C9: promote, demote, set-role, remove-role and link never change the
\* stored owner: once a claim has set it, no step changes it, and set-role
\* granting the owner role or aimed at the owner is refused with auth.json
\* unchanged
C9_OwnerNeverReassigned ==
  /\ []OwnerOutOfReach
  /\ [][authJson.owner # "" => authJson'.owner = authJson.owner]_vars

\* with an owner claimed and roles granted, set-role has just refused to
\* grant the owner role or to touch the owner
C9_Witness ==
  /\ authJson.owner # ""
  /\ DOMAIN authJson.users # {}
  /\ reply.kind \in {"owner_only_by_setowner", "cannot_change_owner"}

----------------------------------------------------------------------------
(* Properties of role resolution *)

TierLevel == [owner |-> 3, admin |-> 2, guest |-> 1]

\* userId is the canonical id or a linked id of a record of records
InRecord(records, userId) ==
  \E c \in DOMAIN records : c = userId \/ Includes(records[c].linkedIds, userId)

\* the user records of permissions.ts that hold the admin role
AdminRecords(doc) ==
  LET users == loadRoles(doc).users
  IN [c \in {id \in DOMAIN users : users[id].role = "admin"} |-> users[c]]

\* getTier and hasPermission on a file auth.ts wrote: owner id and linked
\* ids first, then the admin records, else guest; hasPermission is the
\* order owner > admin > guest
TierResolution ==
  authJson.fmt = "old" =>
    \A userId \in UserIds :
      /\ getTier(authJson, userId) =
           IF IsOwnerId(authJson, userId) THEN "owner"
           ELSE IF InRecord(authJson.admins, userId) THEN "admin" ELSE "guest"
      /\ \A r \in DOMAIN TierLevel :
           hasPermission(authJson, userId, r)
             = (TierLevel[getTier(authJson, userId)] >= TierLevel[r])

\* getUserRole and hasRole: owner id and linked ids first, then the admin
\* records by canonical or linked id; hasRole is the order of the levels
RoleResolution ==
  \A userId \in UserIds, w \in Workspaces \cup {""} :
    /\ IsOwnerId(authJson, userId) => getUserRole(authJson, userId, w) = "owner"
    /\ ~IsOwnerId(authJson, userId) /\ InRecord(AdminRecords(authJson), userId)
         => getUserRole(authJson, userId, w) = "admin"
    /\ \A r \in Roles :
         hasRole(authJson, userId, r, w)
           = (ROLE_LEVELS[getUserRole(authJson, userId, w)] >= ROLE_LEVELS[r])

\* C11: role resolution looks at the owner id and the owner's linked ids,
\* then at every admin record by canonical or linked id, and is the default
\* otherwise; hasPermission (hasRole) holds exactly when the resolved role
\* is at least the required one, so an owner who is also in an admin record
\* is the owner
C11_RoleResolution == TierResolution /\ RoleResolution

\* userId takes its role from the default rule: it is not the owner nor
\* linked to the owner, and no record holds it as canonical or linked id
ByDefault(doc, userId) ==
  /\ ~IsOwnerId(doc, userId)
  /\ ~InRecord(doc.admins, userId)
  /\ ~InRecord(loadRoles(doc).users, userId)

\* promoteToAdmin then demoteAdmin of a user who is a guest by default, on
\* a file auth.ts wrote
PromoteDemoteRestores ==
  authJson.fmt = "old" =>
    \A userId \in UserIds, displayName \in {"", "Al"} :
      ByDefault(authJson, userId) =>
        \A p \in {promoteToAdmin(authJson, userId, displayName)} :
          \A q \in {demoteAdmin(p.doc, userId)} :
            /\ getTier(p.doc, userId) = "admin"
            /\ q.value /\ q.doc = authJson
            /\ getTier(q.doc, userId) = "guest"

\* setUserRole to a higher role, then removeUserRole by the same manager, for
\* a user who has the default role, where the manager may grant the role
SetRemoveRestores ==
  \A userId \in UserIds, role \in {"admin", "member"}, managerId \in UserIds,
     w \in Workspaces \cup {""} :
    \A p \in {setUserRole(authJson, userId, role, "N", managerId, w)} :
      /\ ByDefault(authJson, userId)
      /\ ROLE_LEVELS[role] > ROLE_LEVELS[getUserRole(authJson, userId, w)]
      /\ p.value = "success"
      => \A q \in {removeUserRole(p.doc, userId, managerId, w)} :
          /\ getUserRole(p.doc, userId, w) = role
          /\ q.value = "success"
          /\ q.doc = loadRoles(authJson)
          /\ getUserRole(q.doc, userId, w) = getUserRole(authJson, userId, w)
          /\ ByDefault(q.doc, userId)

GroupsOf(links, id) == {i \in 1..Len(links) : InLink(links[i], id.userId, id.teamId)}

\* every identity is in at most one link group
OneGroupEach ==
  \A id \in Identities : Cardinality(GroupsOf(wsLinks, id)) <= 1

\* linkUsers of two identities that are in link groups already, of which the
\* two in different groups are a case, fails and saves nothing
JoinRejected ==
  \A id1 \in Identities, id2 \in Identities :
    GroupsOf(wsLinks, id1) # {} /\ GroupsOf(wsLinks, id2) # {} =>
      \A r \in {linkUsers(wsLinks, id1.userId, id1.teamId, id2.userId, id2.teamId)} :
        ~r.success /\ r.links = wsLinks

\* C13: after any sequence of linkUsers calls every (user id, workspace)
\* identity is in at most one link group, and a call that would join two
\* identities of different groups fails and leaves the link store unchanged
C13_OneLinkGroup == OneGroupEach /\ JoinRejected

\* two link groups are stored, so a call can name identities of both
C13_Witness ==
  \E id1 \in Identities, id2 \in Identities :
    /\ GroupsOf(wsLinks, id1) # {} /\ GroupsOf(wsLinks, id2) # {}
    /\ GroupsOf(wsLinks, id1) # GroupsOf(wsLinks, id2)
    /\ linkUsers(wsLinks, id1.userId, id1.teamId, id2.userId, id2.teamId).links = wsLinks

\* texts probed against the patterns: up to MaxProbe words joined by spaces
MaxProbe == 6

ProbeWords ==
  {<<"jibot">>, <<"forget">>, <<"who">>, <<"is">>, <<MentionOf("U1")>>, <<"x">>}

ProbeTexts ==
  {Words(ws) : ws \in UNION {[1..n -> ProbeWords] : n \in 0..MaxProbe}}

\* no text is matched by the learn pattern and by the forget pattern
LearnForgetDisjoint ==
  \A text \in ProbeTexts :
    ~(parseLearnCommand(text).matched /\ parseForgetCommand(text).matched)

\* a message the forget pattern matches suspends on no learn command and
\* adds no fact to the store
ForgetStoresNothing ==
  \A text \in Messages :
    Parsed[text].forgetCmd.matched =>
      \A r \in {messageHandler(people, text)} :
        /\ r.learn = NoMatch
        /\ \A u \in UserIds :
             Len(getFacts(r.store, u)) <= Len(getFacts(people, u))

\* C14: the learn pattern never matches an input the forget pattern
\* matches (`jibot forget <@U> is broken` among them), so a forget command
\* stores no fact
C14_ForgetNeverLearns == LearnForgetDisjoint /\ ForgetStoresNothing

\* `jibot forget <@U1> is broken` arrives while facts about U1 are stored:
\* the forget pattern matches it, the learn pattern does not
C14_Witness ==
  /\ Known(people, "U1")
  /\ parseForgetCommand(ForgetText("U1", <<"is", SP, "broken">>)).matched
  /\ ~parseLearnCommand(ForgetText("U1", <<"is", SP, "broken">>)).matched
  /\ messageHandler(people, ForgetText("U1", <<"is", SP, "broken">>)).reply.kind = "fact_list"

\* C15: a message whose whole text is a forget command (such as
\* `jibot forget <@U1> who is <@U2>`) is dispatched to the forget handler,
\* never to recall because of a `who is <@X>` inside it
C15_ForgetNotRecalled ==
  \A text \in Messages :
    Parsed[text].forgetCmd.matched =>
      \A r \in {messageHandler(people, text)} :
        \A f \in {handleForget(people, Parsed[text].forgetCmd.userId,
                               Parsed[text].forgetCmd.index)} :
          r.store = f.store /\ r.reply = f.reply /\ r.learn = NoMatch

----------------------------------------------------------------------------
(* Properties of the language-model resolver and the skills *)

\* what llmParse leaves and returns when the answer awaited is response
AfterAnswer(response) ==
  llmParseResume(conversationHistory, llm.userId, llm.history, response, llm.userInput)

\* a malformed answer makes processWithLLM return the fallback text as it is
MalformedGivesFallback ==
  llm.pc = "parse" =>
    \A kind \in Malformed :
      \A r \in {AfterAnswer([kind |-> kind, object |-> SafeFallback])} :
        processParsed(llm, r.result).out = Display(SafeFallback.fallback_response)

\* after a malformed answer the user's turn is in the user's history
MalformedKeepsTurn ==
  llm.pc = "parse" =>
    \A kind \in Malformed :
      \A r \in {AfterAnswer([kind |-> kind, object |-> SafeFallback])} :
        /\ llm.userId \in DOMAIN r.map
        /\ \E k \in 1..Len(r.map[llm.userId]) :
             r.map[llm.userId][k] = Message("user", llm.userInput)

\* the same, for a user whose history is stored already
MalformedKeepsTurnOfKnown ==
  (llm.pc = "parse" /\ llm.userId \in DOMAIN conversationHistory) =>
    \A kind \in Malformed :
      \A r \in {AfterAnswer([kind |-> kind, object |-> SafeFallback])} :
        \E k \in 1..Len(r.map[llm.userId]) :
          r.map[llm.userId][k] = Message("user", llm.userInput)

\* C16: on a malformed (non-JSON) answer of the model processWithLLM
\* returns the fixed fallback text as it is, and the user's turn is
\* recorded in that user's history, for users with and without a history
C16_MalformedAnswer == MalformedGivesFallback /\ MalformedKeepsTurn

\* C17: the history of each user holds at most MAX_HISTORY entries after
\* any sequence of successful and failed llmParse calls
C17_HistoryBounded ==
  \A userId \in DOMAIN conversationHistory :
    Len(conversationHistory[userId]) <= MAX_HISTORY

\* C18: an answer that is a JSON object without the skills key or without
\* the fallback_response key makes the resolver return the safe fallback,
\* and processWithLLM returns a string and never throws
C18_MissingKeyIsSafe ==
  llm.pc = "parse" =>
    \A o \in JsonObjects :
      o.keys # SafeFallback.keys =>
        \A r \in {AfterAnswer([kind |-> "json", object |-> o])} :
          /\ r.result = SafeFallback
          /\ processParsed(llm, r.result).out.type = "string"

\* the parameters each skill reads
SkillParams ==
  [direct_response |-> {"message"}, person_lookup |-> {"query"},
   org_lookup |-> {"query"}, calendar_list |-> {"period"},
   calendar_create |-> {"description"}, email_search |-> {"query"},
   inbox_list |-> {}, slack_dm |-> {"user_id", "message"},
   weather |-> {"location"}, web_search |-> {"query"}, web_fetch |-> {"url"},
   email_compose |-> {"to", "subject", "body"},
   reminder_add |-> {"title", "notes"}, no_such_skill |-> {}]

\* every skill with any of its parameters missing
AllSkills ==
  UNION {{Skill(tag, ps) : ps \in SUBSET SkillParams[tag]} : tag \in DOMAIN SkillParams}

\* C19: executeSkill never throws: for every skill (any tag, any of its
\* parameters missing, those the model listed among them) and every outcome
\* of what it calls, it returns a display string
C19_ExecuteSkillNeverThrows ==
  \A skill \in AllSkills \cup {llm.skills[k] : k \in 1..Len(llm.skills)} :
    \A env \in Envs :
      \A r \in {executeSkill(skill, env)} : ~r.threw /\ r.type = "string"

----------------------------------------------------------------------------
(* Properties of the rule-based parser *)

\* the words of the text parseCommand was called with
ParsedWords == Tokens(toLowerCase(trim(parseText)))

\* an inbox, calendar or email rule matches the text
NarrowRuleMatches ==
  Test(ParsedWords, InboxPatterns \cup CalendarPatterns \cup EmailPatterns
                      \cup LateEmailPatterns \cup LateReminderPatterns)

\* C21: the inbox, calendar and email rules are tested before the person
\* rules: a text that an inbox, calendar or email rule matches (such as
\* "what's on my schedule") is never classified as lookup_person
C21_NarrowBeforePerson ==
  NarrowRuleMatches => parseResult.intent # "lookup_person"

\* a text that a calendar rule and a person pattern both match was parsed
C21_Witness ==
  /\ NarrowRuleMatches
  /\ PersonMatch(ParsedWords).matched
  /\ parseResult.intent = "lookup_calendar"

\* C30: every text that begins with `remind me to <task>` is classified as
\* action_remind with the message <task>, whatever words the task has
C30_RemindMeAlwaysReminds ==
  (Len(ParsedWords) > 3 /\ SubSeq(ParsedWords, 1, 3) = <<"remind", "me", "to">>) =>
    /\ parseResult.intent = "action_remind"
    /\ parseResult.words = SubSeq(ParsedWords, 4, Len(ParsedWords))

----------------------------------------------------------------------------
(* Properties of the MUD bridge *)

SaidWords == Tokens(toLowerCase(trim(mudMessage)))

\* C25: every speech of the form `broadcast <msg>` is answered with
\* relay_to_slack set, and every speech of the form `explain <concept>` by
\* the concept lookup, also when the text after the keyword holds " is "
C25_BroadcastAndExplain ==
  Len(SaidWords) >= 2 =>
    /\ SaidWords[1] = "broadcast" => mudResponse.relay_to_slack
    /\ SaidWords[1] = "explain" => mudResponse.handler = "explain"


\* the roles of a list of messages alternate, the first being the user's
Alternates(messages) ==
  /\ Len(messages) > 0 => messages[1].role = "user"
  /\ \A k \in 1..(Len(messages) - 1) : messages[k].role # messages[k + 1].role

\* C26: the list of messages given to messages.create begins with a turn of
\* the user and alternates between user and assistant, after any sequence
\* of successful and failed llmParse calls
C26_SubmittedAlternates == llm.pc = "parse" => Alternates(llm.history)

----------------------------------------------------------------------------
(* Properties of the role groups of auth.json *)

\* the role groups id belongs to: <<"owner", owner>> for the owner and the
\* ids linked to the owner, <<"admin", c>> for each admin c whose own id or
\* linked ids hold it
RoleGroupsOf(doc, id) ==
  (IF IsOwnerId(doc, id) THEN {<<"owner", doc.owner>>} ELSE {})
    \cup {<<"admin", c>> : c \in {a \in DOMAIN doc.admins :
                                    a = id \/ Includes(doc.admins[a].linkedIds, id)}}

\* C27: after any sequence of setowner, admin, demote and link commands no
\* user id belongs to more than one role group
C27_OneRoleGroup ==
  authJson.fmt = "old" =>
    \A id \in UserIds \cup LinkIds : Cardinality(RoleGroupsOf(authJson, id)) <= 1

----------------------------------------------------------------------------
(* Properties of the role operations of permissions.ts *)

\* every id a role is asked for, and every way of asking
RoleIds == UserIds \cup LinkIds

RoleWorkspaces == Workspaces \cup {""}

\* managerId resolves to owner neither with nor without a workspace id
NotOwner(doc, managerId) ==
  \A w \in RoleWorkspaces : getUserRole(doc, managerId, w) # "owner"

Elevated(doc, id, w) == getUserRole(doc, id, w) \in {"admin", "owner"}

\* no id resolves to admin or owner in after that did not in before
NoNewElevation(before, after) ==
  \A id \in RoleIds, w \in RoleWorkspaces : Elevated(after, id, w) => Elevated(before, id, w)

\* what the four operations leave in the file when managerId calls them
ByManager(doc, managerId) ==
  {setUserRole(doc, t, role, "", managerId, w).doc :
     t \in UserIds, role \in Roles, w \in RoleWorkspaces}
    \cup {removeUserRole(doc, t, managerId, w).doc : t \in UserIds, w \in RoleWorkspaces}
    \cup {linkUserId(doc, p, l, managerId).doc : p \in UserIds, l \in LinkIds}
    \cup {setWorkspaceDefault(doc, w, d, managerId).doc : w \in Workspaces, d \in DefaultRoles}

\* C28: no operation called by someone who does not resolve to owner makes
\* an id resolve to admin or owner, with or without a workspace id, that
\* did not before
C28_NoEscalationByNonOwner ==
  \A managerId \in UserIds :
    NotOwner(authJson, managerId) =>
      \A after \in ByManager(authJson, managerId) : NoNewElevation(authJson, after)


\* C29: someone whose role is admin cannot change or remove the role of a
\* user whose role is admin or owner: setUserRole and removeUserRole refuse
\* and leave the file as it was (looked at for another user than the caller)
C29_AdminCannotTouchAdmins ==
  \A managerId \in UserIds, targetUserId \in UserIds, w \in RoleWorkspaces :
    (/\ managerId # targetUserId
     /\ getUserRole(authJson, managerId, w) = "admin"
     /\ Elevated(authJson, targetUserId, w)) =>
      /\ \A role \in Roles :
           \A out \in {setUserRole(authJson, targetUserId, role, "", managerId, w)} :
             out.value # "success" /\ out.doc = authJson
      /\ \A out \in {removeUserRole(authJson, targetUserId, managerId, w)} :
           out.value # "success" /\ out.doc = authJson

----------------------------------------------------------------------------
(* Properties of the remind command *)

\* C24: when the reminders tool fails to add the reminder, the reply of the
\* remind command is not the confirmation "Got it! I'll remind Joi to ..."
C24_ConfirmOnlyWhenAdded ==
  \A p \in BagToSet(slashPending) :
    p.kind = "remind" =>
      \A displayName \in {Profile(p.userId).displayName, ""} :
        \A r \in {slashResume(authJson, inbox, p, displayName, FALSE)} :
          r.inbox = inbox /\ r.reply.kind # "reminded"

----------------------------------------------------------------------------
(* Properties of the stores under failing reads and writes *)

\* C23: no operation on the fact store, the reminders or the identity
\* stores ends with the exception of a failed read or write
C23_StorageFailureNeverThrows == ioResult.error # "io"

----------------------------------------------------------------------------
(* Properties of commands that overlap *)

\* C22: while a command of a user is suspended at its external call, the
\* handling of a second command of that user changes nothing in the store
C22_SecondWaitsForFirst ==
  \A p \in BagToSet(pending) :
    \A m \in Inbound :
      m[2] = p.addedBy => messageHandler(people, m[1]).store = people

====
